---- MODULE Spec2Model ----
(***************************************************************************)
(* A model of KLayout's HierarchyBuilder with its shape receivers          *)
(* (dbHierarchyBuilder.cc) and of the NetlistDeviceExtractor               *)
(* (dbNetlistDeviceExtractor.cc).                                          *)
(*                                                                         *)
(* One specification per subsystem:                                        *)
(*   SpecCompare   compare_iterators_with_respect_to_target_hierarchy      *)
(*   SpecVariant   compute_clip_variant                                    *)
(*   Spec          HierarchyBuilder driven by a RecursiveShapeIterator     *)
(*   SpecClip      ClippingHierarchyBuilderShapeReceiver                   *)
(*   SpecReduce    ReducingHierarchyBuilderShapeReceiver                   *)
(*   SpecExtract   NetlistDeviceExtractor::extract                         *)
(*   SpecExtractAgain  extract called twice, with error reports            *)
(*   SpecExtractDeep   extract on a layout, then on a deep shape store     *)
(***************************************************************************)
EXTENDS Integers, Sequences, FiniteSets, Bags, TLC

VARIABLES
  \* compare_iterators_with_respect_to_target_hierarchy: arguments, result
  cmp_iter1, cmp_iter2, cmp_called, cmp_result, cmp_swapped,
  \* HierarchyBuilder: its members
  m_initial_pass, m_ref_iter, m_cell_map, m_cells_seen, m_cell_stack, m_cm_entry,
  mp_initial_cell,
  \* the target layout (*mp_target): per cell index its name, instances and shapes
  tgt_names, tgt_insts, tgt_shapes,
  \* the last callback: its return value, and whether it raised (tl_assert)
  hb_ret, hb_raised,
  \* the source layout, and the RecursiveShapeIterator driving the callbacks:
  \* its position in the source hierarchy and the number of traversals started
  layout, drv, n_pass,
  \* what is remembered of the builder's past since the last reset: the target
  \* layout at the end of the first traversal, the number of traversals ended,
  \* and whether all of them ran with the reference iterator
  hist,
  \* ClippingHierarchyBuilderShapeReceiver::push: the shape, region and complex
  \* region pushed, the overload called, and the pushes it made downstream
  clip_shape, clip_region, clip_complex, clip_called, clip_out,
  \* ReducingHierarchyBuilderShapeReceiver: its members m_max_vertex_count and
  \* m_area_ratio, the shape, region and complex region pushed, the overload
  \* called, the polygon reduce () is at, the push it made downstream, and what
  \* the splits were like so far
  red_limits, red_shape, red_region, red_complex, red_called, red_poly, red_out, red_hist,
  \* NetlistDeviceExtractor: its members (m_propname_ids holds the three
  \* m_..._propname_id members)
  m_name, m_layer_definitions, mp_device_class, m_netlist, mp_layout, m_layers,
  m_cell_index, mp_circuit, m_new_devices, m_device_cells, m_propname_ids, m_errors,
  \* the netlist, the layout and the cluster store (*mp_clusters) the extractor
  \* works on, how far extract () has come, and every define_terminal call made
  \* so far (per circuit and device id)
  netlist, x_layout, x_clusters, x_at, x_defined,
  \* compute_clip_variant called on its own: its arguments, whether it has
  \* returned, and the pair it returned
  cv_call

cmpVars == <<cmp_iter1, cmp_iter2, cmp_called, cmp_result, cmp_swapped>>

builderVars ==
  <<m_initial_pass, m_ref_iter, m_cell_map, m_cells_seen, m_cell_stack, m_cm_entry,
    mp_initial_cell>>

targetVars == <<tgt_names, tgt_insts, tgt_shapes>>

hbVars == <<builderVars, targetVars, hb_ret, hb_raised>>

drvVars == <<layout, drv, n_pass, hist>>

clipVars == <<clip_shape, clip_region, clip_complex, clip_called, clip_out>>

redVars ==
  <<red_limits, red_shape, red_region, red_complex, red_called, red_poly, red_out, red_hist>>

extractorVars ==
  <<m_name, m_layer_definitions, mp_device_class, m_netlist, mp_layout, m_layers,
    m_cell_index, mp_circuit, m_new_devices, m_device_cells, m_propname_ids, m_errors>>

dxVars == <<extractorVars, netlist, x_layout, x_clusters, x_at, x_defined>>

\* the variables outside the hierarchy builder
cvVars == <<cv_call>>

recvVars == <<cmpVars, clipVars, redVars, dxVars, cvVars>>

vars == <<cmpVars, hbVars, drvVars, clipVars, redVars, dxVars, cvVars>>

\* compute_clip_variant not called on its own
CvIdle == cv_call = 0

\* no device extractor constructed
DxIdle ==
  /\ m_name = 0 /\ m_layer_definitions = 0 /\ mp_device_class = 0 /\ m_netlist = 0
  /\ mp_layout = 0 /\ m_layers = 0 /\ m_cell_index = 0 /\ mp_circuit = 0
  /\ m_new_devices = 0 /\ m_device_cells = 0 /\ m_propname_ids = 0 /\ m_errors = 0
  /\ netlist = 0 /\ x_layout = 0 /\ x_clusters = 0 /\ x_at = 0 /\ x_defined = 0

\* the reducing receiver before any push
RedIdle ==
  /\ red_limits = 0 /\ red_shape = 0 /\ red_region = 0 /\ red_complex = 0
  /\ red_called = "none" /\ red_poly = 0 /\ red_out = <<>> /\ red_hist = 0

\* the clipping receiver before any push
ClipIdle ==
  /\ clip_shape = 0 /\ clip_region = 0 /\ clip_complex = 0
  /\ clip_called = "none" /\ clip_out = <<>>

-----------------------------------------------------------------------------
(* db::Box: a rectangle (l, b) .. (r, t).  An empty box has l > r or b > t. *)

Bx(l, b, r, t) == [l |-> l, b |-> b, r |-> r, t |-> t]

\* db::Box::world (): the box spanning the whole coordinate range
World == Bx(-1000, -1000, 1000, 1000)

\* db::Box (): the default (empty) box
EmptyBox == Bx(1, 1, -1, -1)

BoxEmpty(a) == a.l > a.r \/ a.b > a.t

Max2(x, y) == IF x >= y THEN x ELSE y

Min2(x, y) == IF x <= y THEN x ELSE y

\* a == b for boxes: all empty boxes are equal
BoxEq(a, b) ==
  IF BoxEmpty(a) \/ BoxEmpty(b) THEN BoxEmpty(a) /\ BoxEmpty(b) ELSE a = b

\* a & b: the intersection (empty when one operand is empty or they are disjoint;
\* a degenerate box when they merely touch)
BoxAnd(a, b) ==
  IF BoxEmpty(a) \/ BoxEmpty(b) THEN EmptyBox
  ELSE LET c == Bx(Max2(a.l, b.l), Max2(a.b, b.b), Min2(a.r, b.r), Min2(a.t, b.t))
       IN  IF BoxEmpty(c) THEN EmptyBox ELSE c

\* a * b: db::Box::operator* (const db::Box &) is the convolution
\* (p1, p2) * (q1, q2) = (p1 + q1, p2 + q2), not the intersection
BoxMul(a, b) ==
  IF BoxEmpty(a) \/ BoxEmpty(b) THEN EmptyBox
  ELSE Bx(a.l + b.l, a.b + b.b, a.r + b.r, a.t + b.t)

\* a.inside (b): a is contained in b, borders included
BoxInside(a, b) ==
  /\ ~BoxEmpty(a) /\ ~BoxEmpty(b)
  /\ b.l <= a.l /\ a.r <= b.r /\ b.b <= a.b /\ a.t <= b.t

\* a.overlaps (b): the interiors intersect (touching is not overlapping)
BoxOverlaps(a, b) ==
  /\ ~BoxEmpty(a) /\ ~BoxEmpty(b)
  /\ a.l < b.r /\ b.l < a.r /\ a.b < b.t /\ b.b < a.t

\* a.transformed (t) for a displacement t = <<dx, dy>>
BoxMoved(a, d) ==
  IF BoxEmpty(a) THEN EmptyBox ELSE Bx(a.l + d[1], a.b + d[2], a.r + d[1], a.t + d[2])

\* trans.inverted () for a displacement
TransInv(d) == <<0 - d[1], 0 - d[2]>>

\* box_tree::begin_overlapping (b): the boxes of the tree that overlap b, in tree order
Overlapping(tree, b) == SelectSeq(tree, LAMBDA c : BoxOverlaps(c, b))

-----------------------------------------------------------------------------
(* Orders used by the comparator *)

\* operator< of std::vector<unsigned int>: lexicographic
RECURSIVE SeqLess(_, _)
SeqLess(s, t) ==
  IF t = <<>> THEN FALSE
  ELSE IF s = <<>> THEN TRUE
  ELSE IF Head(s) # Head(t) THEN Head(s) < Head(t)
  ELSE SeqLess(Tail(s), Tail(t))

\* the conversion of a C++ bool to int
BoolToInt(v) == IF v THEN 1 ELSE 0

\* operator< on bool
BoolLess(x, y) == ~x /\ y

-----------------------------------------------------------------------------
(* db::RecursiveShapeIterator, as far as the builder reads it:              *)
(*   layout       the source layout (an address)                            *)
(*   top          top_cell ()->cell_index ()                                *)
(*   max_depth    max_depth ()                                              *)
(*   region       region (): World or a box                                 *)
(*   has_complex  has_complex_region ()                                     *)
(*   complex      complex_region (): here the rectangles, in order          *)
(*   multi        multiple_layers ()                                        *)
(*   layers       layers ()                                                 *)
(*   layer        layer ()                                                  *)

Iter(lay, top, md, reg, hc, cr, ml, ls, l) ==
  [layout |-> lay, top |-> top, max_depth |-> md, region |-> reg,
   has_complex |-> hc, complex |-> cr, multi |-> ml, layers |-> ls, layer |-> l]

\* complex_region () < complex_region (): db::Region's order, here the
\* lexicographic order of the rectangles' corner lists
BoxKey(a) == <<a.l, a.b, a.r, a.t>>

RECURSIVE FlatBoxes(_)
FlatBoxes(s) == IF s = <<>> THEN <<>> ELSE BoxKey(Head(s)) \o FlatBoxes(Tail(s))

RegionLess(c1, c2) == SeqLess(FlatBoxes(c1), FlatBoxes(c2))

\* compare_iterators_with_respect_to_target_hierarchy (iter1, iter2)
compare_iterators_with_respect_to_target_hierarchy(iter1, iter2) ==
  IF iter1.layout # iter2.layout
    THEN (IF iter1.layout < iter2.layout THEN -1 ELSE 1)
  ELSE IF iter1.top # iter2.top
    THEN (IF iter1.top < iter2.top THEN -1 ELSE 1)
  ELSE IF iter1.max_depth # iter2.max_depth
    THEN (IF iter1.max_depth < iter2.max_depth THEN -1 ELSE 1)
  ELSE IF (iter1.region = World) # (iter2.region = World)
    THEN (IF BoolLess(iter1.region = World, iter2.region = World) THEN -1 ELSE 1)
  ELSE IF iter1.region # World
    THEN IF iter1.has_complex # iter2.has_complex
           THEN (IF BoolLess(iter1.has_complex, iter2.has_complex) THEN -1 ELSE 1)
         ELSE IF iter1.has_complex /\ iter1.complex # iter2.complex
           THEN (IF RegionLess(iter1.complex, iter2.complex) THEN -1 ELSE 1)
         ELSE IF iter1.multi # iter2.multi
           THEN (IF BoolLess(iter1.multi, iter2.multi) THEN -1 ELSE 1)
         ELSE IF iter1.multi
           THEN (IF iter1.layers # iter2.layers
                   THEN BoolToInt(SeqLess(iter1.layers, iter2.layers))
                   ELSE 0)
         ELSE (IF iter1.layer # iter2.layer
                 THEN BoolToInt(iter1.layer < iter2.layer)
                 ELSE 0)
  ELSE 0

-----------------------------------------------------------------------------
(* compute_clip_variant: <<valid, variant>>, the variant a set of boxes *)

\* the body of the loop over the complex region's rectangles overlapping the
\* region: the set of boxes it inserts
ClipVariantBoxes(rect_box, trans_inv, region, complex_region) ==
  LET crs == Overlapping(complex_region, region)
  IN  { BoxMul(rect_box, BoxMoved(crs[i], trans_inv)) :
          i \in { j \in 1..Len(crs) : BoxOverlaps(rect_box, BoxMoved(crs[j], trans_inv)) } }

\* has_complex: complex_region is not the null pointer
compute_clip_variant(cell_bbox, trans, region, has_complex, complex_region) ==
  IF region = World THEN <<TRUE, {}>>
  ELSE LET trans_inv      == TransInv(trans)
           region_in_cell == BoxMoved(region, trans_inv)
       IN  IF ~BoxOverlaps(cell_bbox, region_in_cell) THEN <<FALSE, {}>>
           ELSE LET rect_box == BoxAnd(region_in_cell, cell_bbox)
                IN  IF has_complex
                      THEN LET cv == ClipVariantBoxes(rect_box, trans_inv, region, complex_region)
                           IN  IF cv = {} THEN <<FALSE, {}>> ELSE <<TRUE, cv>>
                      ELSE <<TRUE, {rect_box}>>

-----------------------------------------------------------------------------
(* The source layout the iterators run on (iter->layout ()): cells 0, 1, 2  *)
(* with their bounding boxes; the cell index stands for the cell's name.    *)

SrcCells == {0, 1, 2}

\* layout ()->cell (ci).bbox ()
SrcBBox(ci) == IF ci = 0 THEN Bx(0, 0, 4, 2) ELSE IF ci = 1 THEN Bx(0, 0, 2, 2) ELSE Bx(0, 0, 1, 1)

\* layout ()->cell_name (ci), with the suffix new_inst_member appends
CellName(ci, suffix) == [base |-> ci, suffix |-> suffix]

-----------------------------------------------------------------------------
(* HierarchyBuilder *)

\* a key that leaves the clip variant out
Key_without_variant(ci, cv) == [ci |-> ci, cv |-> {}]

\* a cell map key: (source cell index, clip variant)
Key(ci, cv) == [ci |-> ci, cv |-> cv]

\* m_cm_entry: an entry of the cell map, m_cell_map.end () or the singular iterator
EntryAt(k) == [kind |-> "at", key |-> k]

EntryEnd == [kind |-> "end", key |-> Key(0 - 1, {})]

EntryNull == [kind |-> "null", key |-> Key(0 - 1, {})]

\* m_cell_map.find (key)
Find(map, key) == IF key \in DOMAIN map THEN EntryAt(key) ELSE EntryEnd

\* mp_target->add_cell (name): the new cell gets the next free index
AddCellIndex == Len(tgt_names) + 1


\* Cell::insert (inst) / Shapes::insert (shape): one more copy of the object
BagAdd(bag, e) == bag (+) SetToBag({e})

\* the target layout after add_cell (name)
TargetWithCell(name) ==
  /\ tgt_names' = Append(tgt_names, name)
  /\ tgt_insts' = Append(tgt_insts, EmptyBag)
  /\ tgt_shapes' = Append(tgt_shapes, EmptyBag)

\* the stack's back ()
Back(stack) == stack[Len(stack)]

\* the last callback returned v
Returned(v) == hb_ret' = v /\ hb_raised' = FALSE

\* a tl_assert failed: the callback raises before it changed anything
Raised ==
  /\ hb_raised' = TRUE
  /\ hb_ret' = "void"
  /\ UNCHANGED <<builderVars, targetVars>>

\* HierarchyBuilder::HierarchyBuilder
InitBuilder ==
  /\ m_initial_pass = TRUE
  /\ m_ref_iter = [layout |-> 0, top |-> 0, max_depth |-> 0, region |-> World, has_complex |-> FALSE, complex |-> <<>>, multi |-> FALSE, layers |-> <<>>, layer |-> 0]
  /\ m_cell_map = <<>>
  /\ m_cells_seen = {}
  /\ m_cell_stack = <<>>
  /\ m_cm_entry = EntryNull
  /\ mp_initial_cell = 0
  /\ tgt_names = <<>>
  /\ tgt_insts = <<>>
  /\ tgt_shapes = <<>>
  /\ hb_ret = "void"
  /\ hb_raised = FALSE

HBIdle == InitBuilder /\ layout = 0 /\ drv = 0 /\ n_pass = 0 /\ hist = 0

\* HierarchyBuilder::reset
reset ==
  /\ m_initial_pass' = TRUE
  /\ mp_initial_cell' = 0
  /\ m_cell_map' = <<>>
  /\ m_cells_seen' = {}
  /\ m_cell_stack' = <<>>
  /\ m_cm_entry' = EntryNull
  /\ Returned("void")
  /\ UNCHANGED <<m_ref_iter, targetVars>>

\* begin holding every iterator against the reference iterator once there is one
begin_checked_against_any_reference(iter) ==
  IF m_ref_iter.layout # 0 /\ compare_iterators_with_respect_to_target_hierarchy(m_ref_iter, iter) # 0
    THEN Raised
    ELSE LET key == Key(iter.top, {})
         IN  /\ m_ref_iter' = (IF m_initial_pass THEN iter ELSE m_ref_iter)
             /\ IF key \notin DOMAIN m_cell_map
                  THEN /\ TargetWithCell(CellName(key.ci, ""))
                       /\ m_cell_map' = m_cell_map @@ (key :> AddCellIndex)
                  ELSE UNCHANGED <<targetVars, m_cell_map>>
             /\ m_cm_entry' = EntryAt(key)
             /\ m_cells_seen' = {key}
             /\ m_cell_stack' = <<m_cell_map'[key]>>
             /\ Returned("void")
             /\ UNCHANGED <<m_initial_pass, mp_initial_cell>>

\* HierarchyBuilder::begin
begin(iter) ==
  IF ~m_initial_pass /\ compare_iterators_with_respect_to_target_hierarchy(m_ref_iter, iter) # 0
    THEN Raised
    ELSE LET key == Key(iter.top, {})
         IN  /\ m_ref_iter' = (IF m_initial_pass THEN iter ELSE m_ref_iter)
             /\ IF key \notin DOMAIN m_cell_map
                  THEN /\ TargetWithCell(CellName(key.ci, ""))
                       /\ m_cell_map' = m_cell_map @@ (key :> AddCellIndex)
                  ELSE UNCHANGED <<targetVars, m_cell_map>>
             /\ m_cm_entry' = EntryAt(key)
             /\ m_cells_seen' = {key}
             /\ m_cell_stack' = <<m_cell_map'[key]>>
             /\ Returned("void")
             /\ UNCHANGED <<m_initial_pass, mp_initial_cell>>

\* HierarchyBuilder::end
end ==
  IF Len(m_cell_stack) # 1
    THEN Raised
    ELSE /\ m_initial_pass' = FALSE
         /\ m_cells_seen' = {}
         /\ mp_initial_cell' = m_cell_stack[1]
         /\ m_cell_stack' = <<>>
         /\ m_cm_entry' = EntryNull
         /\ Returned("void")
         /\ UNCHANGED <<m_ref_iter, m_cell_map, targetVars>>

\* enter_cell not recording the cell as seen
enter_cell_without_seen ==
  IF m_cm_entry.kind # "at"
    THEN Raised
    ELSE /\ m_cell_stack' = Append(m_cell_stack, m_cell_map[m_cm_entry.key])
         /\ Returned("void")
         /\ UNCHANGED <<m_initial_pass, m_ref_iter, m_cell_map, m_cells_seen, m_cm_entry,
                        mp_initial_cell, targetVars>>

\* HierarchyBuilder::enter_cell
enter_cell ==
  IF m_cm_entry.kind # "at"
    THEN Raised
    ELSE /\ m_cells_seen' = m_cells_seen \cup {m_cm_entry.key}
         /\ m_cell_stack' = Append(m_cell_stack, m_cell_map[m_cm_entry.key])
         /\ Returned("void")
         /\ UNCHANGED <<m_initial_pass, m_ref_iter, m_cell_map, m_cm_entry, mp_initial_cell,
                        targetVars>>

\* leave_cell not popping the cell stack
leave_cell_keeping_the_stack ==
  /\ Returned("void")
  /\ UNCHANGED <<builderVars, targetVars>>

\* HierarchyBuilder::leave_cell
leave_cell ==
  /\ m_cell_stack' = SubSeq(m_cell_stack, 1, Len(m_cell_stack) - 1)
  /\ Returned("void")
  /\ UNCHANGED <<m_initial_pass, m_ref_iter, m_cell_map, m_cells_seen, m_cm_entry,
                 mp_initial_cell, targetVars>>

\* the first-pass part inserting an instance only along with a new target cell
InsertOnInitialPass_new_cells_only(key, suffix, array) ==
  LET hit   == key \in DOMAIN m_cell_map
      child == IF hit THEN m_cell_map[key] ELSE AddCellIndex
      names == IF hit THEN tgt_names ELSE Append(tgt_names, CellName(key.ci, suffix))
      insts == IF hit THEN tgt_insts ELSE Append(tgt_insts, EmptyBag)
      parent == Back(m_cell_stack)
  IN  /\ m_cell_map' = (IF hit THEN m_cell_map ELSE m_cell_map @@ (key :> child))
      /\ tgt_names' = names
      /\ tgt_shapes' = (IF hit THEN tgt_shapes ELSE Append(tgt_shapes, EmptyBag))
      /\ tgt_insts' = (IF hit THEN insts
                       ELSE [insts EXCEPT ![parent] = BagAdd(@, [cell |-> child, array |-> array])])
      /\ m_cm_entry' = EntryAt(key)

\* the first-pass part shared by new_inst and new_inst_member: look up or create
\* the target cell for key, and insert new_inst (its object the target cell) into
\* the cell on top of the stack
InsertOnInitialPass(key, suffix, array) ==
  LET hit   == key \in DOMAIN m_cell_map
      child == IF hit THEN m_cell_map[key] ELSE AddCellIndex
      names == IF hit THEN tgt_names ELSE Append(tgt_names, CellName(key.ci, suffix))
      insts == IF hit THEN tgt_insts ELSE Append(tgt_insts, EmptyBag)
      parent == Back(m_cell_stack)
  IN  /\ m_cell_map' = (IF hit THEN m_cell_map ELSE m_cell_map @@ (key :> child))
      /\ tgt_names' = names
      /\ tgt_shapes' = (IF hit THEN tgt_shapes ELSE Append(tgt_shapes, EmptyBag))
      /\ tgt_insts' = [insts EXCEPT ![parent] = BagAdd(@, [cell |-> child, array |-> array])]
      /\ m_cm_entry' = EntryAt(key)

\* new_inst creating and inserting on every pass
new_inst_on_every_pass(iter, inst, all) ==
  IF all
    THEN LET key == Key(inst.cell, {})
         IN  /\ InsertOnInitialPass(key, "", [trans |-> inst.trans, na |-> inst.na, step |-> inst.step])
             /\ Returned(IF key \notin m_cells_seen THEN "NI_single" ELSE "NI_skip")
             /\ UNCHANGED <<m_initial_pass, m_ref_iter, m_cells_seen, m_cell_stack,
                            mp_initial_cell>>
    ELSE /\ Returned("NI_all")
         /\ UNCHANGED <<builderVars, targetVars>>

\* HierarchyBuilder::new_inst; inst = [cell, trans, na, step]: the instance array
\* of na members of cell, member k (from 0) placed by trans + k * step
new_inst(iter, inst, all) ==
  IF all
    THEN LET key == Key(inst.cell, {})
         IN  /\ IF m_initial_pass
                  THEN InsertOnInitialPass(key, "", [trans |-> inst.trans, na |-> inst.na, step |-> inst.step])
                  ELSE /\ m_cm_entry' = Find(m_cell_map, key)
                       /\ UNCHANGED <<m_cell_map, targetVars>>
             /\ Returned(IF key \notin m_cells_seen THEN "NI_single" ELSE "NI_skip")
             /\ UNCHANGED <<m_initial_pass, m_ref_iter, m_cells_seen, m_cell_stack,
                            mp_initial_cell>>
    ELSE /\ Returned("NI_all")
         /\ UNCHANGED <<builderVars, targetVars>>

\* HierarchyBuilder::new_inst_member
\* new_inst_member that takes every clip variant as valid
new_inst_member_without_validity_check(iter, inst, trans, region, has_complex, complex_region, all) ==
  IF all
    THEN /\ Returned("true")
         /\ UNCHANGED <<builderVars, targetVars>>
    ELSE LET cell_bbox    == SrcBBox(inst.cell)
             clip_variant == compute_clip_variant(cell_bbox, trans, region, has_complex,
                                                  complex_region)
             key          == Key(inst.cell, clip_variant[2])
         IN  /\ IF m_initial_pass
                  THEN InsertOnInitialPass(key,
                                           IF key.cv # {} THEN "$CLIP_VAR" ELSE "",
                                           [trans |-> trans, na |-> 1, step |-> <<0, 0>>])
                  ELSE /\ m_cm_entry' = Find(m_cell_map, key)
                       /\ UNCHANGED <<m_cell_map, targetVars>>
             /\ Returned(IF key \notin m_cells_seen THEN "true" ELSE "false")
             /\ UNCHANGED <<m_initial_pass, m_ref_iter, m_cells_seen, m_cell_stack,
                            mp_initial_cell>>

new_inst_member(iter, inst, trans, region, has_complex, complex_region, all) ==
  IF all
    THEN /\ Returned("true")
         /\ UNCHANGED <<builderVars, targetVars>>
    ELSE LET cell_bbox    == SrcBBox(inst.cell)
             clip_variant == compute_clip_variant(cell_bbox, trans, region, has_complex,
                                                  complex_region)
             key          == Key(inst.cell, clip_variant[2])
         IN  IF ~clip_variant[1]
               THEN /\ Returned("false")
                    /\ UNCHANGED <<builderVars, targetVars>>
               ELSE /\ IF m_initial_pass
                         THEN InsertOnInitialPass(key,
                                                  IF key.cv # {} THEN "$CLIP_VAR" ELSE "",
                                                  [trans |-> trans, na |-> 1, step |-> <<0, 0>>])
                         ELSE /\ m_cm_entry' = Find(m_cell_map, key)
                              /\ UNCHANGED <<m_cell_map, targetVars>>
                    /\ Returned(IF key \notin m_cells_seen THEN "true" ELSE "false")
                    /\ UNCHANGED <<m_initial_pass, m_ref_iter, m_cells_seen, m_cell_stack,
                                   mp_initial_cell>>

\* HierarchyBuilderShapeInserter::push: the default receiver inserts the shape as it is
InserterPush(shape, shapes) == BagAdd(shapes, shape)

\* shape delivering to the receiver on the first pass only
shape_cb_on_first_pass_only(shape) ==
  /\ tgt_shapes' = (IF m_initial_pass
                      THEN [tgt_shapes EXCEPT ![Back(m_cell_stack)] = InserterPush(shape, @)]
                      ELSE tgt_shapes)
  /\ Returned("void")
  /\ UNCHANGED <<builderVars, tgt_names, tgt_insts>>

\* HierarchyBuilder::shape, the receiver pipeline being the default inserter
shape_cb(shape) ==
  /\ tgt_shapes' = [tgt_shapes EXCEPT ![Back(m_cell_stack)] = InserterPush(shape, @)]
  /\ Returned("void")
  /\ UNCHANGED <<builderVars, tgt_names, tgt_insts>>

-----------------------------------------------------------------------------
(* SpecCompare: the comparator applied to every pair of a bounded set of    *)
(* iterators.                                                               *)

\* layer indices are 1 .. MaxLayer
MaxLayer == 2

\* max_depth values are 1 .. MaxDepthAttr
MaxDepthAttr == 2

CmpLayouts == {1, 2}

CmpTops == {0, 1}

CmpRegions == {World, Bx(0, 0, 2, 2), Bx(0, 0, 4, 2)}

\* no complex region, or one of two different ones
CmpComplex == {<<>>, <<Bx(0, 0, 1, 1)>>, <<Bx(0, 0, 1, 1), Bx(1, 1, 2, 2)>>}

CmpLayerLists == {<<l>> : l \in 1..MaxLayer} \cup {<<1, l>> : l \in 2..MaxLayer}

\* an iterator with the world region has no complex region; a single-layer
\* iterator has no layer list, a multi-layer one no single layer
CmpIters ==
  { Iter(lay, top, md, reg, cr # <<>>, cr, ml, IF ml THEN ls ELSE <<>>, IF ml THEN 0 ELSE l) :
      lay \in CmpLayouts, top \in CmpTops, md \in 1..MaxDepthAttr, reg \in CmpRegions \ {World},
      cr \in CmpComplex, ml \in BOOLEAN, ls \in CmpLayerLists, l \in 1..MaxLayer }
  \cup
  { Iter(lay, top, md, World, FALSE, <<>>, ml, IF ml THEN ls ELSE <<>>, IF ml THEN 0 ELSE l) :
      lay \in CmpLayouts, top \in CmpTops, md \in 1..MaxDepthAttr,
      ml \in BOOLEAN, ls \in CmpLayerLists, l \in 1..MaxLayer }

CmpIdle ==
  /\ cmp_iter1 = 0 /\ cmp_iter2 = 0 /\ cmp_called = FALSE
  /\ cmp_result = 0 /\ cmp_swapped = 0

InitCompare ==
  /\ cmp_iter1 \in CmpIters
  /\ cmp_iter2 \in CmpIters
  /\ cmp_called = FALSE
  /\ cmp_result = 0
  /\ cmp_swapped = 0
  /\ HBIdle
  /\ ClipIdle
  /\ CvIdle
  /\ RedIdle
  /\ DxIdle

\* the comparator called on (iter1, iter2) and on (iter2, iter1)
Compare ==
  /\ ~cmp_called
  /\ cmp_called' = TRUE
  /\ cmp_result' = compare_iterators_with_respect_to_target_hierarchy(cmp_iter1, cmp_iter2)
  /\ cmp_swapped' = compare_iterators_with_respect_to_target_hierarchy(cmp_iter2, cmp_iter1)
  /\ UNCHANGED <<cmp_iter1, cmp_iter2, hbVars, drvVars, clipVars, redVars, dxVars, cvVars>>

NextCompare == Compare

SpecCompare == InitCompare /\ [][NextCompare]_vars

\* the two iterators agree in all attributes of hierarchy compatibility
SameHierarchyAttributes(a, b) ==
  /\ a.layout = b.layout
  /\ a.top = b.top
  /\ a.max_depth = b.max_depth
  /\ (a.region = World) = (b.region = World)
  /\ (a.region # World => a.has_complex = b.has_complex /\ a.complex = b.complex)
  /\ a.multi = b.multi
  /\ a.layers = b.layers
  /\ a.layer = b.layer

\* the same, the layer mode and the layers counting for bounded regions only
HierarchyCompatible(a, b) ==
  /\ a.layout = b.layout
  /\ a.top = b.top
  /\ a.max_depth = b.max_depth
  /\ (a.region = World) = (b.region = World)
  /\ a.region # World =>
       /\ a.has_complex = b.has_complex /\ a.complex = b.complex
       /\ a.multi = b.multi /\ a.layers = b.layers /\ a.layer = b.layer

\* C4 as stated: the comparator returns 0 for iterators that agree in layout, top
\* cell, max depth, world flag, complex region (when bounded), layer mode and
\* layers, and a non-zero value in either argument order for iterators that
\* differ in one of them (layer mode and layers taken for bounded regions only)
C4_ZeroIffSameAttributes ==
  cmp_called =>
    /\ SameHierarchyAttributes(cmp_iter1, cmp_iter2) => cmp_result = 0 /\ cmp_swapped = 0
    /\ ~HierarchyCompatible(cmp_iter1, cmp_iter2) => cmp_result # 0 /\ cmp_swapped # 0

-----------------------------------------------------------------------------
(* The source layouts and the iterators of the traversals *)

\* an instance array: na members of cell, member k (from 1) placed by
\* trans + (k - 1) * step
Arr(cell, trans, na, step) == [cell |-> cell, trans |-> trans, na |-> na, step |-> step]

\* the displacement of member k of an instance array
MemberTrans(inst, k) == <<inst.trans[1] + (k - 1) * inst.step[1], inst.trans[2] + (k - 1) * inst.step[2]>>

\* the bounding box of member k, and of the whole array
MemberBBox(inst, k) == BoxMoved(SrcBBox(inst.cell), MemberTrans(inst, k))

ArrayBBox(inst) ==
  LET a == MemberBBox(inst, 1)
      z == MemberBBox(inst, inst.na)
  IN  Bx(Min2(a.l, z.l), Min2(a.b, z.b), Max2(a.r, z.r), Max2(a.t, z.t))

\* a shape of the source layout: a box on a layer
Sh(layer, box) == [layer |-> layer, box |-> box]

\* the shapes of the source cells
SrcShapes(ci) ==
  IF ci = 0 THEN <<Sh(1, Bx(1, 0, 2, 1)), Sh(2, Bx(0, 0, 4, 2))>>
  ELSE IF ci = 1 THEN <<Sh(1, Bx(0, 0, 2, 2)), Sh(2, Bx(0, 1, 1, 2))>>
  ELSE <<Sh(1, Bx(0, 0, 1, 1))>>

\* the instances of the top cell (cell 0): an array of two members of cell 1,
\* cell 1 twice, cell 1 and cell 2, or cell 2 only
TopInsts ==
  { <<Arr(1, <<0, 0>>, 2, <<2, 0>>)>>,
    <<Arr(1, <<0, 0>>, 1, <<0, 0>>), Arr(1, <<2, 0>>, 1, <<0, 0>>)>>,
    <<Arr(1, <<0, 0>>, 1, <<0, 0>>), Arr(2, <<1, 0>>, 1, <<0, 0>>)>>,
    <<Arr(2, <<1, 0>>, 1, <<0, 0>>)>> }

\* the instances of cell 1: none or cell 2, at the left or at the right
SubInsts == { <<>>, <<Arr(2, <<0, 0>>, 1, <<0, 0>>)>>, <<Arr(2, <<1, 0>>, 1, <<0, 0>>)>> }

\* the source layouts: per cell (index + 1) its instance arrays
SrcLayouts == { <<t, s, <<>>>> : t \in TopInsts, s \in SubInsts }

SrcInsts(ci) == layout[ci + 1]

HBRegion == Bx(1, 0, 3, 2)

HBComplex == <<Bx(1, 0, 2, 1), Bx(2, 1, 3, 2)>>

\* max_depth of the iterators: deep enough for the source layouts
HBDepth == 2

\* the iterators handed to begin: the world region, a box region on two layers,
\* and a box region with a complex region
HBIters ==
  { Iter(1, 0, HBDepth, World, FALSE, <<>>, FALSE, <<>>, 1),
    Iter(1, 0, HBDepth, HBRegion, FALSE, <<>>, FALSE, <<>>, 1),
    Iter(1, 0, HBDepth, HBRegion, FALSE, <<>>, FALSE, <<>>, 2),
    Iter(1, 0, HBDepth, HBRegion, TRUE, HBComplex, FALSE, <<>>, 1) }

-----------------------------------------------------------------------------
(* The RecursiveShapeIterator delivering a traversal to the builder: depth  *)
(* first, a cell's shapes before its instances, a child cell entered when   *)
(* new_inst_member returned true.  drv.frames is the iterator's stack: per  *)
(* level the source cell, its displacement to the top cell, the local       *)
(* region and complex region, the next shape (si), the instance array it is *)
(* at (ii), the mode the receiver chose for it, and the next member (mi).   *)

\* a.touches (b): the boxes share a point at least
BoxTouches(a, b) ==
  /\ ~BoxEmpty(a) /\ ~BoxEmpty(b)
  /\ a.l <= b.r /\ b.l <= a.r /\ a.b <= b.t /\ b.b <= a.t

\* a + b: the bounding box of both
BoxJoin(a, b) ==
  IF BoxEmpty(a) THEN b
  ELSE IF BoxEmpty(b) THEN a
  ELSE Bx(Min2(a.l, b.l), Min2(a.b, b.b), Max2(a.r, b.r), Max2(a.t, b.t))

RECURSIVE BoxJoinAll(_)
BoxJoinAll(s) == IF s = <<>> THEN EmptyBox ELSE BoxJoin(Head(s), BoxJoinAll(Tail(s)))

\* the least element of a set of positive numbers, 0 for the empty set
Least(S) == IF S = {} THEN 0 ELSE CHOOSE x \in S : \A y \in S : x <= y

Frame(cell, trans, region, complex) ==
  [cell |-> cell, trans |-> trans, region |-> region, complex |-> complex,
   si |-> 1, ii |-> 1, mode |-> "none", all |-> FALSE, mi |-> 1]

\* whether the object with bounding box b is selected by the frame's region
Selected(f, b) ==
  \/ f.region = World
  \/ /\ BoxTouches(b, f.region)
     /\ (drv.iter.has_complex => \E i \in 1..Len(f.complex) : BoxTouches(b, f.complex[i]))

\* the next shape of the frame's cell to deliver
ShapeAt(f) ==
  Least({ i \in f.si..Len(SrcShapes(f.cell)) :
            /\ SrcShapes(f.cell)[i].layer = drv.iter.layer
            /\ Selected(f, SrcShapes(f.cell)[i].box) })

\* the next member of the instance array the frame is at
MemberAt(f) ==
  IF f.mode = "none" THEN 0
  ELSE LET inst == SrcInsts(f.cell)[f.ii]
       IN  IF f.mode = "NI_single" THEN (IF f.mi = 1 THEN 1 ELSE 0)
           ELSE Least({ k \in f.mi..inst.na : f.all \/ Selected(f, MemberBBox(inst, k)) })

\* the frame once an instance array whose members are through is left
Norm(f) ==
  IF f.mode # "none" /\ MemberAt(f) = 0
    THEN [f EXCEPT !.mode = "none", !.all = FALSE, !.mi = 1, !.ii = f.ii + 1]
    ELSE f

\* the next instance array of the frame's cell to announce
InstAt(f) ==
  IF Len(drv.frames) - 1 >= drv.iter.max_depth THEN 0
  ELSE Least({ i \in f.ii..Len(SrcInsts(f.cell)) : Selected(f, ArrayBBox(SrcInsts(f.cell)[i])) })

\* the frame the iterator is in
Cur == Norm(Back(drv.frames))

\* the iterator's stack with the current frame replaced
WithCur(f) == [drv.frames EXCEPT ![Len(drv.frames)] = f]

\* the whole array is inside the region and there is no complex region
AllOfInstance(f, inst) ==
  /\ f.region = World \/ BoxInside(ArrayBBox(inst), f.region)
  /\ ~drv.iter.has_complex

\* the frame of the child cell entered through member k of inst
ChildFrame(f, inst, k) ==
  LET tinst  == MemberTrans(inst, k)
      total  == <<f.trans[1] + tinst[1], f.trans[2] + tinst[2]>>
      region == IF drv.iter.region = World THEN World
                ELSE BoxAnd(BoxMoved(drv.iter.region, TransInv(total)), SrcBBox(inst.cell))
      moved  == [i \in 1..Len(f.complex) |-> BoxAnd(BoxMoved(f.complex[i], TransInv(tinst)), region)]
      local  == SelectSeq(moved, LAMBDA b : ~BoxEmpty(b))
  IN  IF drv.iter.has_complex
        THEN Frame(inst.cell, total, BoxJoinAll(local), local)
        ELSE Frame(inst.cell, total, region, <<>>)

-----------------------------------------------------------------------------
(* Spec: the builder driven by traversals of a source layout.  Each         *)
(* traversal is started with any of the iterators; between traversals the   *)
(* builder may be reset.                                                    *)

\* the number of traversals started
MaxPasses == 3

NullIter == Iter(0, 0, 0, World, FALSE, <<>>, FALSE, <<>>, 0)

DrvIdle == [phase |-> "idle", iter |-> NullIter, frames |-> <<>>]

HistNone == [names |-> <<>>, insts |-> <<>>, shapes |-> <<>>, ends |-> 0, same |-> TRUE]

Init ==
  /\ InitBuilder
  /\ layout \in SrcLayouts
  /\ drv = DrvIdle
  /\ n_pass = 0
  /\ hist = HistNone
  /\ CmpIdle
  /\ ClipIdle
  /\ CvIdle
  /\ RedIdle
  /\ DxIdle

\* reset () between two traversals
Reset ==
  /\ drv.phase = "idle"
  /\ reset
  /\ hist' = HistNone
  /\ UNCHANGED <<recvVars, layout, drv, n_pass>>

\* a traversal starts: begin (iter)
Begin ==
  /\ drv.phase = "idle"
  /\ n_pass < MaxPasses
  /\ \E iter \in HBIters :
       /\ begin(iter)
       /\ drv' = IF hb_raised' THEN DrvIdle
                 ELSE [phase |-> "run", iter |-> iter,
                       frames |-> <<Frame(iter.top, <<0, 0>>, iter.region, iter.complex)>>]
  /\ n_pass' = n_pass + 1
  /\ hist' = [hist EXCEPT !.same = @ /\ (hb_raised' \/ drv'.iter = m_ref_iter')]
  /\ UNCHANGED <<recvVars, layout>>

\* the next shape of the current cell: shape (s)
Shape ==
  /\ drv.phase = "run"
  /\ ShapeAt(Cur) # 0
  /\ shape_cb(SrcShapes(Cur.cell)[ShapeAt(Cur)])
  /\ drv' = [drv EXCEPT !.frames = WithCur([Cur EXCEPT !.si = ShapeAt(Cur) + 1])]
  /\ UNCHANGED <<recvVars, layout, n_pass, hist>>

\* the next instance array of the current cell: new_inst (inst, all)
NewInst ==
  /\ drv.phase = "run"
  /\ ShapeAt(Cur) = 0
  /\ Cur.mode = "none"
  /\ InstAt(Cur) # 0
  /\ LET inst == SrcInsts(Cur.cell)[InstAt(Cur)]
         all  == AllOfInstance(Cur, inst)
     IN  /\ new_inst(drv.iter, inst, all)
         /\ drv' = [drv EXCEPT !.frames = WithCur(
                      IF hb_ret' = "NI_skip"
                        THEN [Cur EXCEPT !.ii = InstAt(Cur) + 1]
                        ELSE [Cur EXCEPT !.ii = InstAt(Cur), !.mode = hb_ret', !.all = all, !.mi = 1])]
  /\ UNCHANGED <<recvVars, layout, n_pass, hist>>

\* the next member of the instance array: new_inst_member (inst, trans, region, all)
NewInstMember ==
  /\ drv.phase = "run"
  /\ MemberAt(Cur) # 0
  /\ LET inst == SrcInsts(Cur.cell)[Cur.ii]
         k    == MemberAt(Cur)
     IN  /\ new_inst_member(drv.iter, inst, MemberTrans(inst, k), Cur.region,
                            drv.iter.has_complex, Cur.complex, Cur.all)
         /\ drv' = IF hb_ret' = "true"
                     THEN [drv EXCEPT !.phase = "enter", !.frames = WithCur([Cur EXCEPT !.mi = k])]
                     ELSE [drv EXCEPT !.frames = WithCur([Cur EXCEPT !.mi = k + 1])]
  /\ UNCHANGED <<recvVars, layout, n_pass, hist>>

\* the iterator descends into the member: enter_cell; a failed assertion ends
\* the traversal
EnterCell ==
  /\ drv.phase = "enter"
  /\ enter_cell
  /\ LET f    == Back(drv.frames)
         inst == SrcInsts(f.cell)[f.ii]
     IN  drv' = IF hb_raised' THEN DrvIdle
                ELSE [drv EXCEPT !.phase = "run",
                                 !.frames = Append(WithCur([f EXCEPT !.mi = f.mi + 1]),
                                                   ChildFrame(f, inst, f.mi))]
  /\ UNCHANGED <<recvVars, layout, n_pass, hist>>

\* nothing is left in the current cell
CellDone == ShapeAt(Cur) = 0 /\ Cur.mode = "none" /\ InstAt(Cur) = 0

\* the iterator returns to the parent cell: leave_cell
LeaveCell ==
  /\ drv.phase = "run"
  /\ Len(drv.frames) > 1
  /\ CellDone
  /\ leave_cell
  /\ drv' = [drv EXCEPT !.frames = SubSeq(drv.frames, 1, Len(drv.frames) - 1)]
  /\ UNCHANGED <<recvVars, layout, n_pass, hist>>

\* the traversal is through: end
End ==
  /\ drv.phase = "run"
  /\ Len(drv.frames) = 1
  /\ CellDone
  /\ end
  /\ drv' = DrvIdle
  /\ hist' = IF m_initial_pass
               THEN [hist EXCEPT !.names = tgt_names, !.insts = tgt_insts,
                                 !.shapes = tgt_shapes, !.ends = @ + 1]
               ELSE [hist EXCEPT !.ends = @ + 1]
  /\ UNCHANGED <<recvVars, layout, n_pass>>

Next ==
  \/ Reset \/ Begin \/ End \/ EnterCell \/ LeaveCell \/ NewInst \/ NewInstMember \/ Shape

Spec == Init /\ [][Next]_vars

-----------------------------------------------------------------------------
(* Properties of the builder under Spec *)

\* the step is a reset ()
ResetStep == drv.phase = "idle" /\ n_pass' = n_pass

Injective(map) == \A k1, k2 \in DOMAIN map : k1 # k2 => map[k1] # map[k2]

\* the clip variant of the instance array member the iterator is at
MemberVariant ==
  LET inst == SrcInsts(Cur.cell)[Cur.ii]
  IN  [ci |-> inst.cell,
       cv |-> compute_clip_variant(SrcBBox(inst.cell), MemberTrans(inst, MemberAt(Cur)),
                                   Cur.region, drv.iter.has_complex, Cur.complex)[2]]

\* C1: between two resets the cell map is injective, a key once mapped keeps its
\* target cell, and the cell map entry a clipped instance member is entered
\* through is the one of its source cell and clip variant
C1_CellMapInjectiveAndStable ==
  [][ /\ Injective(m_cell_map')
      /\ ~ResetStep => \A k \in DOMAIN m_cell_map :
                          k \in DOMAIN m_cell_map' /\ m_cell_map'[k] = m_cell_map[k]
      /\ (drv.phase = "run" /\ drv'.phase = "enter" /\ ~Cur.all /\ m_cm_entry'.kind = "at")
            => m_cm_entry'.key = MemberVariant /\ MemberVariant \in DOMAIN m_cell_map' ]_vars

\* two clip variants of one source cell are mapped, and a later traversal runs
C1_TwoVariantsMapped ==
  /\ ~m_initial_pass
  /\ drv.phase = "run"
  /\ \E k1, k2 \in DOMAIN m_cell_map :
       k1.ci = k2.ci /\ k1.cv # {} /\ k2.cv # {} /\ k1.cv # k2.cv

\* C2: after the first traversal has ended, no step but a reset changes the cells,
\* the cell map or the instances, and only shape callbacks change the target;
\* during the first traversal every new target cell comes with a new key
C2_LaterPassesKeepStructure ==
  [][ ~ResetStep =>
        /\ ~m_initial_pass =>
              /\ tgt_names' = tgt_names /\ m_cell_map' = m_cell_map /\ tgt_insts' = tgt_insts
              /\ tgt_shapes' # tgt_shapes => drv.phase = "run" /\ ShapeAt(Cur) # 0
        /\ m_initial_pass =>
              /\ Len(tgt_names') - Len(tgt_names)
                   = Cardinality(DOMAIN m_cell_map') - Cardinality(DOMAIN m_cell_map)
              /\ Len(tgt_names') - Len(tgt_names) \in {0, 1} ]_vars

\* on a later traversal new_inst_member found the clip variant's target cell
C2_LaterPassFindsVariant ==
  /\ ~m_initial_pass
  /\ drv.phase = "enter"
  /\ m_cm_entry.kind = "at"
  /\ m_cm_entry.key.cv # {}
  /\ Cardinality(DOMAIN m_cell_map) >= 3

\* the copies of the shapes in b, each n times
SameShapesTimes(a, b, n) ==
  /\ BagToSet(a) = BagToSet(b)
  /\ \A e \in BagToSet(a) : CopiesIn(e, a) = n * CopiesIn(e, b)

\* all traversals since the reset ran with the reference iterator and are through
RepeatedOnly == ~m_initial_pass /\ drv.phase = "idle" /\ hist.same

\* C3 as stated: repeating the traversal leaves cells, instances and shapes as
\* they were after the first traversal
C3_RepeatLeavesTargetIdentical ==
  RepeatedOnly =>
    /\ tgt_names = hist.names
    /\ tgt_insts = hist.insts
    /\ \A c \in 1..Len(tgt_shapes) : SameShapesTimes(tgt_shapes[c], hist.shapes[c], 1)

\* the target cell belongs to the cell map (it was made since the last reset)
Mapped(c) == \E k \in DOMAIN m_cell_map : m_cell_map[k] = c

\* C3: repeating the traversal leaves cells and instances as they were after the
\* first traversal, and every traversal inserts the shapes of the mapped cells
\* once more
C3_RepeatKeepsStructureAddsShapes ==
  RepeatedOnly =>
    /\ tgt_names = hist.names
    /\ tgt_insts = hist.insts
    /\ \A c \in 1..Len(tgt_shapes) :
         SameShapesTimes(tgt_shapes[c], hist.shapes[c], IF Mapped(c) THEN hist.ends ELSE 1)

\* the traversal was repeated, and a clipped cell holds shapes
C3_Repeated ==
  /\ RepeatedOnly
  /\ hist.ends = 2
  /\ \E k \in DOMAIN m_cell_map : k.cv # {} /\ tgt_shapes[m_cell_map[k]] # EmptyBag

\* C5 as stated: begin on a later pass accepts an iterator only if it agrees with
\* the reference iterator in the attributes of hierarchy compatibility
C5_LaterBeginAcceptsCompatibleOnly ==
  [][ (drv.phase = "idle" /\ drv'.phase = "run" /\ ~m_initial_pass)
        => HierarchyCompatible(m_ref_iter, drv'.iter) ]_vars

\* the source cells the traversal reaches from the top cell
Children(c) == { SrcInsts(c)[i].cell : i \in 1..Len(SrcInsts(c)) }

Reached ==
  LET r1 == {0} \cup Children(0)
      r2 == r1 \cup UNION { Children(c) : c \in r1 }
  IN  r2 \cup UNION { Children(c) : c \in r2 }

\* the instance array of the source as the target holds it
Remapped(inst) ==
  [cell  |-> m_cell_map[Key(inst.cell, {})],
   array |-> [trans |-> inst.trans, na |-> inst.na, step |-> inst.step]]

\* the first traversal of a fresh builder ran with the world region and is through
FirstWorldTraversalDone ==
  /\ n_pass = 1 /\ drv.phase = "idle" /\ ~m_initial_pass
  /\ m_ref_iter.region = World

\* C6: after a first traversal with the world region the target has exactly one
\* cell per reached source cell, and each target cell exactly the instance arrays
\* of its source cell, the child remapped through the cell map
C6_WorldTraversalIsomorphic ==
  FirstWorldTraversalDone =>
    /\ DOMAIN m_cell_map = { Key(c, {}) : c \in Reached }
    /\ Injective(m_cell_map)
    /\ Len(tgt_names) = Cardinality(Reached)
    /\ \A c \in Reached :
         LET t == tgt_insts[m_cell_map[Key(c, {})]]
             s == SrcInsts(c)
         IN  /\ BagToSet(t) = { Remapped(s[i]) : i \in 1..Len(s) }
             /\ \A i \in 1..Len(s) :
                  CopiesIn(Remapped(s[i]), t)
                    = Cardinality({ j \in 1..Len(s) : s[j] = s[i] })

\* all three source cells were reached, one of them through two instance arrays
C6_ThreeCellsReached ==
  /\ FirstWorldTraversalDone
  /\ Len(tgt_names) = 3
  /\ \E c \in 1..3 : BagCardinality(tgt_insts[c]) = 2

-----------------------------------------------------------------------------
(* Geometry of the shapes the receivers handle.  An area shape covers a set *)
(* of unit squares ("pixels", named by their lower left corner); a polygon  *)
(* is the set of pixels it covers.                                          *)

\* the pixels a box covers (none for an empty or degenerate box)
Pix(b) == { <<x, y>> : x \in b.l..(b.r - 1), y \in b.b..(b.t - 1) }

\* db::Polygon::box (): the bounding box of a set of pixels
PixBBox(pix) ==
  IF pix = {} THEN EmptyBox
  ELSE Bx(CHOOSE x \in { q[1] : q \in pix } : \A q \in pix : x <= q[1],
          CHOOSE y \in { q[2] : q \in pix } : \A q \in pix : y <= q[2],
          (CHOOSE x \in { q[1] : q \in pix } : \A q \in pix : x >= q[1]) + 1,
          (CHOOSE y \in { q[2] : q \in pix } : \A q \in pix : y >= q[2]) + 1)

\* db::Shape: its kind, its bbox () and the pixels it covers (none for texts,
\* edges and edge pairs)
ShapeOf(kind, box, pix) == [kind |-> kind, box |-> box, pix |-> pix]

\* shape.is_text () || shape.is_edge () || shape.is_edge_pair ()
IsNonArea(shape) == shape.kind \in {"text", "edge", "edge_pair"}

\* shape.is_polygon () || shape.is_simple_polygon () || shape.is_path ()
IsPolygonal(shape) == shape.kind \in {"polygon", "simple_polygon", "path"}

\* shape.polygon (poly): the shape as a db::Polygon
AsPolygon(shape) == ShapeOf("polygon", shape.box, shape.pix)

\* a db::Box as a shape
AsBox(b) == ShapeOf("box", b, Pix(b))

\* mp_pipe->push (...): a push to the next receiver; via is the overload used
\* ("shape", "box" or "polygon")
Push(via, shape, region, has_complex, complex_region) ==
  [via |-> via, shape |-> shape, region |-> region, has_complex |-> has_complex,
   complex |-> complex_region]

\* db::clip_poly (poly, box, out): the part of the polygon inside the box, nothing
\* if they share no area
clip_poly(poly, box) ==
  LET pix == poly.pix \cap Pix(box)
  IN  IF pix = {} THEN <<>> ELSE <<ShapeOf("polygon", PixBBox(pix), pix)>>

-----------------------------------------------------------------------------
(* ClippingHierarchyBuilderShapeReceiver *)

\* ClippingHierarchyBuilderShapeReceiver::is_inside
is_inside(box, region, has_complex, complex_region) ==
  IF region = World THEN TRUE
  ELSE IF BoxInside(box, region)
    THEN LET rect_box == BoxAnd(region, box)
             crs      == Overlapping(complex_region, rect_box)
         IN  has_complex /\ \E i \in 1..Len(crs) : BoxInside(rect_box, crs[i])
    ELSE FALSE

\* ClippingHierarchyBuilderShapeReceiver::is_outside
is_outside(box, region, has_complex, complex_region) ==
  IF region = World THEN FALSE
  ELSE IF BoxOverlaps(box, region)
    THEN LET rect_box == BoxAnd(region, box)
             crs      == Overlapping(complex_region, rect_box)
         IN  IF has_complex
               THEN ~ \E i \in 1..Len(crs) : BoxOverlaps(rect_box, crs[i])
               ELSE FALSE
    ELSE TRUE

\* insert_clipped forwarding the box as it is
insert_unclipped_box(box, region, has_complex, complex_region) ==
  <<Push("box", AsBox(box), World, FALSE, <<>>)>>

\* ClippingHierarchyBuilderShapeReceiver::insert_clipped (const db::Box &)
insert_clipped_box(box, region, has_complex, complex_region) ==
  LET bb  == BoxAnd(box, region)
      crs == Overlapping(complex_region, bb)
  IN  IF has_complex
        THEN [i \in 1..Len(crs) |-> Push("box", AsBox(BoxAnd(crs[i], bb)), World, FALSE, <<>>)]
        ELSE <<Push("box", AsBox(bb), World, FALSE, <<>>)>>

\* the polygons clip_poly appends for the rectangles of the complex region
RECURSIVE ClippedAt(_, _, _)
ClippedAt(poly, region, crs) ==
  IF crs = <<>> THEN <<>>
  ELSE clip_poly(poly, BoxAnd(Head(crs), region)) \o ClippedAt(poly, region, Tail(crs))

\* ClippingHierarchyBuilderShapeReceiver::insert_clipped (const db::Polygon &)
insert_clipped_polygon(poly, region, has_complex, complex_region) ==
  LET clipped_poly == IF has_complex
                        THEN ClippedAt(poly, region, Overlapping(complex_region, region))
                        ELSE clip_poly(poly, region)
  IN  [i \in 1..Len(clipped_poly) |-> Push("polygon", clipped_poly[i], World, FALSE, <<>>)]

\* ClippingHierarchyBuilderShapeReceiver::push (const db::Shape &)
clip_push_shape(shape, region, has_complex, complex_region) ==
  IF region = World \/ is_inside(shape.box, region, has_complex, complex_region)
    THEN <<Push("shape", shape, World, FALSE, <<>>)>>
  ELSE IF ~is_outside(shape.box, region, has_complex, complex_region)
    THEN IF IsNonArea(shape)
           THEN <<Push("shape", shape, World, FALSE, <<>>)>>
         ELSE IF shape.kind = "box"
           THEN insert_clipped_box(shape.box, region, has_complex, complex_region)
         ELSE IF IsPolygonal(shape)
           THEN insert_clipped_polygon(AsPolygon(shape), region, has_complex, complex_region)
         ELSE <<>>
  ELSE <<>>

\* ClippingHierarchyBuilderShapeReceiver::push (const db::Box &)
clip_push_box(shape, region, has_complex, complex_region) ==
  IF ~has_complex
    THEN LET r == BoxAnd(shape, region)
         IN  IF ~BoxEmpty(r) THEN <<Push("box", AsBox(r), World, FALSE, <<>>)>> ELSE <<>>
    ELSE insert_clipped_box(shape, region, has_complex, complex_region)

\* ClippingHierarchyBuilderShapeReceiver::push (const db::Polygon &)
clip_push_polygon(shape, region, has_complex, complex_region) ==
  IF region = World \/ (BoxInside(shape.box, region) /\ ~has_complex)
    THEN <<Push("polygon", shape, World, FALSE, <<>>)>>
    ELSE insert_clipped_polygon(shape, region, has_complex, complex_region)

-----------------------------------------------------------------------------
(* SpecClip: the three push overloads of the clipping receiver applied to   *)
(* the shapes of a small grid, under the world region and under bounded     *)
(* regions with and without a complex region.                               *)

\* the grid of the shapes: 0 .. ClipW by 0 .. ClipH
ClipW == 3

ClipH == 2

\* the boxes of the grid with an area
ClipBoxes ==
  { q \in { Bx(l, b, r, t) : l \in 0..ClipW, r \in 0..ClipW, b \in 0..ClipH, t \in 0..ClipH } :
      q.l < q.r /\ q.b < q.t }

\* the points of the grid, as the bounding boxes of texts
ClipPoints == { Bx(x, y, x, y) : x \in 0..ClipW, y \in 0..ClipH }

\* pixel sets of polygons that are no rectangles
ClipLShapes == { {<<0, 0>>, <<1, 0>>, <<1, 1>>}, {<<1, 0>>, <<2, 0>>, <<2, 1>>} }

ClipPolygonPix == { Pix(b) : b \in ClipBoxes } \cup ClipLShapes

ClipShapes ==
  { AsBox(b) : b \in ClipBoxes }
  \cup { ShapeOf(k, PixBBox(px), px) : k \in {"polygon", "simple_polygon", "path"}, px \in ClipPolygonPix }
  \cup { ShapeOf("text", b, {}) : b \in ClipPoints }
  \cup { ShapeOf(k, b, {}) : k \in {"edge", "edge_pair"}, b \in ClipBoxes }

\* region and complex region: the world, or a box with no complex region or with
\* one made of rectangles inside the box
ClipRegions ==
  { <<World, FALSE, <<>>>>,
    <<Bx(1, 0, 3, 2), FALSE, <<>>>>,
    <<Bx(1, 0, 3, 2), TRUE, <<Bx(1, 0, 2, 1), Bx(2, 1, 3, 2)>>>>,
    <<Bx(1, 0, 3, 2), TRUE, <<Bx(1, 0, 3, 1)>>>>,
    <<Bx(0, 0, 2, 1), FALSE, <<>>>>,
    <<Bx(0, 0, 2, 1), TRUE, <<Bx(0, 0, 1, 1)>>>> }

InitClip ==
  /\ clip_shape \in ClipShapes
  /\ \E rc \in ClipRegions : clip_region = rc[1] /\ clip_complex = [has |-> rc[2], boxes |-> rc[3]]
  /\ clip_called = "none"
  /\ clip_out = <<>>
  /\ CmpIdle
  /\ HBIdle
  /\ RedIdle
  /\ DxIdle
  /\ CvIdle

\* push (const db::Shape &) called with the shape
ClipPushShape ==
  /\ clip_called = "none"
  /\ clip_called' = "shape"
  /\ clip_out' = clip_push_shape(clip_shape, clip_region, clip_complex.has, clip_complex.boxes)
  /\ UNCHANGED <<clip_shape, clip_region, clip_complex, cmpVars, hbVars, drvVars, redVars, dxVars, cvVars>>

\* push (const db::Box &) called with the box of a box shape
ClipPushBox ==
  /\ clip_called = "none"
  /\ clip_shape.kind = "box"
  /\ clip_called' = "box"
  /\ clip_out' = clip_push_box(clip_shape.box, clip_region, clip_complex.has, clip_complex.boxes)
  /\ UNCHANGED <<clip_shape, clip_region, clip_complex, cmpVars, hbVars, drvVars, redVars, dxVars, cvVars>>

\* push (const db::Polygon &) called with the polygon of a polygon shape
ClipPushPolygon ==
  /\ clip_called = "none"
  /\ clip_shape.kind = "polygon"
  /\ clip_called' = "polygon"
  /\ clip_out' = clip_push_polygon(clip_shape, clip_region, clip_complex.has, clip_complex.boxes)
  /\ UNCHANGED <<clip_shape, clip_region, clip_complex, cmpVars, hbVars, drvVars, redVars, dxVars, cvVars>>

NextClip == ClipPushShape \/ ClipPushBox \/ ClipPushPolygon

SpecClip == InitClip /\ [][NextClip]_vars

-----------------------------------------------------------------------------
(* Properties of the clipping receiver under SpecClip *)

\* the shape lies within the region and, if there is a complex region, within
\* its rectangles
LiesWithin(shape, region, has_complex, boxes) ==
  /\ BoxInside(shape.box, region)
  /\ shape.pix \subseteq Pix(region)
  /\ has_complex =>
       IF shape.pix # {}
         THEN shape.pix \subseteq UNION { Pix(boxes[i]) : i \in 1..Len(boxes) }
         ELSE \E i \in 1..Len(boxes) : BoxInside(shape.box, boxes[i])

\* the bounding box overlaps neither the region nor, if there is a complex
\* region, any of its rectangles
FullyOutside(box, region, has_complex, boxes) ==
  \/ ~BoxOverlaps(box, region)
  \/ has_complex /\ \A i \in 1..Len(boxes) : ~BoxOverlaps(box, boxes[i])

\* one of the overloads was called with a bounded region
ClippedCall == clip_called # "none" /\ clip_region # World

\* C7 as stated: with a bounded region every shape pushed downstream lies within
\* the region and the complex region, and a shape whose bounding box is fully
\* outside is not pushed at all, for all overloads and all kinds of shapes
C7_ClipSoundForAllShapes ==
  ClippedCall =>
    /\ \A i \in 1..Len(clip_out) :
         LiesWithin(clip_out[i].shape, clip_region, clip_complex.has, clip_complex.boxes)
    /\ FullyOutside(clip_shape.box, clip_region, clip_complex.has, clip_complex.boxes)
         => clip_out = <<>>

\* C7: with a bounded region every shape pushed downstream but an edge or edge
\* pair lies within the region and the complex region; a shape whose bounding box
\* is fully outside is not pushed at all, except by push (const db::Box &) without
\* complex region, which drops a box only if its intersection with the region is
\* empty and pushes the intersection without area of a box that touches the region
C7_ClipSoundForAreaShapes ==
  ClippedCall =>
    /\ \A i \in 1..Len(clip_out) :
         \/ clip_shape.kind \in {"edge", "edge_pair"}
         \/ LiesWithin(clip_out[i].shape, clip_region, clip_complex.has, clip_complex.boxes)
    /\ \A i \in 1..Len(clip_out) : clip_out[i].region = World /\ ~clip_out[i].has_complex
    /\ FullyOutside(clip_shape.box, clip_region, clip_complex.has, clip_complex.boxes) =>
         IF clip_called = "box" /\ ~clip_complex.has
           THEN IF BoxEmpty(BoxAnd(clip_shape.box, clip_region))
                  THEN clip_out = <<>>
                  ELSE /\ Len(clip_out) = 1
                       /\ clip_out[1].shape = AsBox(BoxAnd(clip_shape.box, clip_region))
                       /\ clip_out[1].shape.pix = {}
           ELSE clip_out = <<>>

\* a box shape across two rectangles of the complex region was clipped in two
C7_ClippedInTwo ==
  /\ ClippedCall
  /\ clip_called = "shape"
  /\ clip_complex.has
  /\ Len(clip_out) = 2
  /\ clip_out[1].shape # clip_out[2].shape
  /\ \A i \in 1..2 : clip_out[i].shape.pix # {} /\ clip_out[i].shape.pix # clip_shape.pix

\* C8 as stated: push (const db::Shape &) with the world region, or with the
\* shape's bounding box inside the region and (if there is a complex region) inside
\* one of its rectangles, pushes the same shape once, with the world region and
\* no complex region
C8_InsideForwardedUnchanged ==
  ( /\ clip_called = "shape"
    /\ \/ clip_region = World
       \/ /\ BoxInside(clip_shape.box, clip_region)
          /\ clip_complex.has =>
               \E i \in 1..Len(clip_complex.boxes) : BoxInside(clip_shape.box, clip_complex.boxes[i]) )
  => clip_out = <<Push("shape", clip_shape, World, FALSE, <<>>)>>

-----------------------------------------------------------------------------
(* ReducingHierarchyBuilderShapeReceiver.  Here a shape is its kind, its    *)
(* number of vertices n (hull and holes), the area ba of its bounding box   *)
(* and its area a (0 for shapes without area)                               *)

RedShape(kind, n, ba, a) == [kind |-> kind, n |-> n, ba |-> ba, a |-> a]

\* the loop summing poly.contour (c).size () over hull and holes
npoints(poly) == poly.n

\* area_ratio (poly) > m_area_ratio, the quotient of the two areas taken as the
\* fraction ba / a
AreaRatioAbove(poly, ratio) == poly.ba > ratio * poly.a

\* the condition of reduce () under which the polygon is split
NeedsSplit_for_vertices_only(poly) == npoints(poly) > red_limits.max_vertex_count

NeedsSplit(poly) ==
  npoints(poly) > red_limits.max_vertex_count \/ AreaRatioAbove(poly, red_limits.area_ratio)

\* the part has fewer vertices than the polygon it was split from
FewerVertices(part, poly) == part.n < poly.n

\* the part has a smaller area ratio than the polygon it was split from
SmallerRatio(part, poly) == part.ba * poly.a < poly.ba * part.a

\* what is known of the splits so far: whether there was one, whether every
\* part had fewer vertices or a smaller area ratio than its polygon, and whether
\* every part had fewer vertices
RedHist(split, either, fewer) == [split |-> split, either |-> either, fewer |-> fewer]

\* the reducer is through with the shape pushed
red_done == red_called # "none" /\ red_poly.kind = "none"

NoPoly == RedShape("none", 0, 0, 0)

\* ReducingHierarchyBuilderShapeReceiver::push (const db::Shape &)
red_push_shape ==
  /\ red_called' = "shape"
  /\ IF red_shape.kind \in {"text", "edge", "edge_pair"}
       THEN /\ red_out' = <<Push("shape", red_shape, red_region, red_complex.has, red_complex.boxes)>>
            /\ red_poly' = NoPoly
     ELSE IF red_shape.kind = "box"
       THEN /\ red_out' = <<Push("box", red_shape, red_region, red_complex.has, red_complex.boxes)>>
            /\ red_poly' = NoPoly
     ELSE /\ red_out' = <<>>
          /\ red_poly' = [red_shape EXCEPT !.kind = "polygon"]
  /\ UNCHANGED <<red_limits, red_shape, red_region, red_complex, red_hist>>

\* ReducingHierarchyBuilderShapeReceiver::push (const db::Box &)
red_push_box ==
  /\ red_called' = "box"
  /\ red_out' = <<Push("box", red_shape, red_region, red_complex.has, red_complex.boxes)>>
  /\ red_poly' = NoPoly
  /\ UNCHANGED <<red_limits, red_shape, red_region, red_complex, red_hist>>

\* ReducingHierarchyBuilderShapeReceiver::push (const db::Polygon &)
red_push_polygon ==
  /\ red_called' = "polygon"
  /\ red_out' = <<>>
  /\ red_poly' = red_shape
  /\ UNCHANGED <<red_limits, red_shape, red_region, red_complex, red_hist>>

\* ReducingHierarchyBuilderShapeReceiver::reduce for the polygon red_poly: it is
\* pushed downstream, or split and reduce () entered for a part; sp is any of the
\* parts db::split_polygon made
reduce(sp) ==
  IF NeedsSplit(red_poly)
    THEN /\ red_poly' = sp
         /\ red_hist' = RedHist(TRUE,
                                red_hist.either /\ (FewerVertices(sp, red_poly) \/ SmallerRatio(sp, red_poly)),
                                red_hist.fewer /\ FewerVertices(sp, red_poly))
         /\ UNCHANGED <<red_limits, red_shape, red_region, red_complex, red_called, red_out>>
    ELSE /\ red_out' = <<Push("polygon", red_poly, red_region, red_complex.has, red_complex.boxes)>>
         /\ red_poly' = NoPoly
         /\ UNCHANGED <<red_limits, red_shape, red_region, red_complex, red_called, red_hist>>

-----------------------------------------------------------------------------
(* SpecReduce: the reducing receiver on shapes of all kinds.  The recursion *)
(* of reduce () is followed along one part per split, any part; the         *)
(* behaviours are the paths of the recursion.  db::split_polygon may make   *)
(* any polygons.                                                            *)

\* polygons have 3 .. RedMaxN vertices and a bounding box area of 1 .. RedMaxArea
RedMaxN == 4

RedMaxArea == 2

RedPolys ==
  { q \in { RedShape("polygon", n, ba, a) : n \in 3..RedMaxN, ba \in 1..RedMaxArea, a \in 1..RedMaxArea } :
      q.a <= q.ba }

RedShapes ==
  { [q EXCEPT !.kind = k] : q \in RedPolys, k \in {"polygon", "simple_polygon", "path"} }
  \cup { RedShape("box", 4, a, a) : a \in 1..RedMaxArea }
  \cup { RedShape(k, 0, 0, 0) : k \in {"text", "edge", "edge_pair"} }

\* region and complex region: the world, or a box with a complex region
RedRegions ==
  { <<World, FALSE, <<>>>>,
    <<Bx(1, 0, 3, 2), TRUE, <<Bx(1, 0, 2, 1), Bx(2, 1, 3, 2)>>>> }

\* max_vertex_count and area_ratio of the constructor
RedLimits == { [max_vertex_count |-> v, area_ratio |-> r] : v \in {3, 4}, r \in {1, 2} }

InitReduce ==
  /\ red_limits \in RedLimits
  /\ red_shape \in RedShapes
  /\ \E rc \in RedRegions : red_region = rc[1] /\ red_complex = [has |-> rc[2], boxes |-> rc[3]]
  /\ red_called = "none"
  /\ red_poly = NoPoly
  /\ red_out = <<>>
  /\ red_hist = RedHist(FALSE, TRUE, TRUE)
  /\ CmpIdle
  /\ HBIdle
  /\ ClipIdle
  /\ CvIdle
  /\ DxIdle

RedPushShape ==
  /\ red_called = "none"
  /\ red_push_shape
  /\ UNCHANGED <<cmpVars, hbVars, drvVars, clipVars, dxVars, cvVars>>

RedPushBox ==
  /\ red_called = "none"
  /\ red_shape.kind = "box"
  /\ red_push_box
  /\ UNCHANGED <<cmpVars, hbVars, drvVars, clipVars, dxVars, cvVars>>

RedPushPolygon ==
  /\ red_called = "none"
  /\ red_shape.kind = "polygon"
  /\ red_push_polygon
  /\ UNCHANGED <<cmpVars, hbVars, drvVars, clipVars, dxVars, cvVars>>

Reduce ==
  /\ red_poly.kind # "none"
  /\ \E sp \in RedPolys : reduce(sp)
  /\ UNCHANGED <<cmpVars, hbVars, drvVars, clipVars, dxVars, cvVars>>

NextReduce == RedPushShape \/ RedPushBox \/ RedPushPolygon \/ Reduce

\* the receiver goes on as long as it has something to do
SpecReduce == InitReduce /\ [][NextReduce]_vars /\ WF_vars(NextReduce)

-----------------------------------------------------------------------------
(* Properties of the reducing receiver under SpecReduce *)

\* every polygon pushed downstream is within both limits; region and complex
\* region are pushed as they came; a box or a shape without area is pushed as it
\* is, once, without a split
RedSafe ==
  /\ \A i \in 1..Len(red_out) :
       /\ red_out[i].via = "polygon" =>
            /\ red_out[i].shape.n <= red_limits.max_vertex_count
            /\ red_out[i].shape.ba <= red_limits.area_ratio * red_out[i].shape.a
       /\ red_out[i].region = red_region
       /\ red_out[i].has_complex = red_complex.has
       /\ red_out[i].complex = red_complex.boxes
  /\ (red_called # "none" /\ red_shape.kind \in {"box", "text", "edge", "edge_pair"}) =>
       /\ red_out = <<Push(IF red_shape.kind = "box" THEN "box" ELSE "shape", red_shape,
                          red_region, red_complex.has, red_complex.boxes)>>
       /\ ~red_hist.split
       /\ red_done

-----------------------------------------------------------------------------
(* NetlistDeviceExtractor (dbNetlistDeviceExtractor.cc).                     *)
(*                                                                         *)
(* Pointers are indexes: mp_device_class into netlist.device_classes,      *)
(* mp_circuit into netlist.circuits, a device model into                   *)
(* netlist.device_models; 0 is the null pointer.  Cell indexes count from  *)
(* 0.  Polygons are boxes.  A property id is the property set it stands    *)
(* for, the empty set being property id 0.                                 *)

\* std::map: an empty map, operator[] with the value a new entry gets, and the
\* assignment to an entry
EmptyMap == [x \in {} |-> 0]

MapGet(f, k, d) == IF k \in DOMAIN f THEN f[k] ELSE d

MapPut(f, k, v) == [x \in DOMAIN f \cup {k} |-> IF x = k THEN v ELSE f[x]]

\* the keys of a std::map or the elements of a std::set in iteration order
RECURSIVE Ascending(_)
Ascending(S) == IF S = {} THEN <<>> ELSE <<Least(S)>> \o Ascending(S \ {Least(S)})

RECURSIVE Flatten(_)
Flatten(ss) == IF ss = <<>> THEN <<>> ELSE Head(ss) \o Flatten(Tail(ss))

\* a coordinate in micrometers times 1/dbu, rounded to database units (half
\* units away from zero); dbu is given as the number of position units per
\* database unit
Rounded(x, dbu) ==
  IF x >= 0 THEN (2 * x + dbu) \div (2 * dbu) ELSE 0 - ((dbu - 2 * x) \div (2 * dbu))

\* dbu_inv * device->position () - db::Point ()
Disp(position, dbu) == <<Rounded(position[1], dbu), Rounded(position[2], dbu)>>

\* db::Circuit::device_by_id: the index of the device in the circuit
device_by_id(circuit, id) ==
  CHOOSE i \in DOMAIN circuit.devices : circuit.devices[i].id = id

\* db::Circuit::add_device: the device gets the next id of the circuit
add_device(circuit, device) ==
  [circuit EXCEPT !.devices = Append(@, [device EXCEPT !.id = Len(circuit.devices) + 1])]

\* the properties of a cell, cell instance or shape: a set of <<name id, value>>
PropSet(name_id, value) == {<<name_id, value>>}

\* db::Layout::add_cell: the name, a prefix and a stem, is made unique by a
\* counter
add_cell_name(cells, base) ==
  [base |-> base, n |-> Cardinality({c \in DOMAIN cells : cells[c].name.base = base})]

NewCell(name) == [name |-> name, props |-> {}, insts |-> <<>>, shapes |-> <<>>]

\* DeviceCellKey of a device: its terminal geometry moved by -disp as sets
\* per terminal and layer, and its parameters by parameter id
DeviceKey_without_translation(gpt, device, pd, disp) ==
  [geometry |->
     [t \in DOMAIN gpt |->
        [l \in DOMAIN gpt[t] |-> {gpt[t][l][i] : i \in DOMAIN gpt[t][l]}]],
   parameters |-> [p \in pd |-> device.parameters[p]]]

DeviceKey(gpt, device, pd, disp) ==
  [geometry |->
     [t \in DOMAIN gpt |->
        [l \in DOMAIN gpt[t] |->
           {BoxMoved(gpt[t][l][i], TransInv(disp)) : i \in DOMAIN gpt[t][l]}]],
   parameters |-> [p \in pd |-> device.parameters[p]]]

\* the shapes written into a new device cell for terminal t: moved by -disp
\* and tagged with the terminal id
TerminalShapes_without_properties(gt, t, disp) ==
  LET ls == Ascending(DOMAIN gt) IN
  Flatten([j \in 1..Len(ls) |->
             [i \in 1..Len(gt[ls[j]]) |->
                [layer |-> ls[j],
                 poly |-> BoxMoved(gt[ls[j]][i], TransInv(disp)),
                 props |-> {}]]])

\* the shapes written as they were defined, not moved by -disp
TerminalShapes_without_translation(gt, t, disp) ==
  LET ls == Ascending(DOMAIN gt) IN
  Flatten([j \in 1..Len(ls) |->
             [i \in 1..Len(gt[ls[j]]) |->
                [layer |-> ls[j],
                 poly |-> gt[ls[j]][i],
                 props |-> PropSet(m_propname_ids.terminal_id, t)]]])

TerminalShapes(gt, t, disp) ==
  LET ls == Ascending(DOMAIN gt) IN
  Flatten([j \in 1..Len(ls) |->
             [i \in 1..Len(gt[ls[j]]) |->
                [layer |-> ls[j],
                 poly |-> BoxMoved(gt[ls[j]][i], TransInv(disp)),
                 props |-> PropSet(m_propname_ids.terminal_id, t)]]])

\* the shapes added to the local cluster of terminal t: lc->add (*s, l->first)
ClusterShapes(gt) ==
  LET ls == Ascending(DOMAIN gt) IN
  Flatten([j \in 1..Len(ls) |->
             [i \in 1..Len(gt[ls[j]]) |-> [layer |-> ls[j], poly |-> gt[ls[j]][i]]]])

\* One round of the loop of push_new_devices: the device with id d.
\* S holds what the loop changes: the cells of the layout, the netlist, the
\* registry m_device_cells and the cluster store.
push_new_device(S, dbu, d) ==
  LET gpt == m_new_devices[d]
      di == device_by_id(S.nl.circuits[mp_circuit], d)
      device == S.nl.circuits[mp_circuit].devices[di]
      disp == Disp(device.position, dbu)
      class == S.nl.device_classes[mp_device_class]
      key == DeviceKey(gpt, device, class.parameter_definitions, disp)
      miss == key \notin DOMAIN S.reg
      ci == Cardinality(DOMAIN S.cells)
      cell_name == add_cell_name(S.cells, <<"D$", class.name>>)
      dm == Len(S.nl.device_models) + 1
      ts == Ascending(DOMAIN gpt)
      device_cell ==
        [NewCell(cell_name) EXCEPT
           !.props = PropSet(m_propname_ids.device_class, class.name),
           !.shapes = Flatten([j \in 1..Len(ts) |-> TerminalShapes(gpt[ts[j]], ts[j], disp)])]
      cc == [j \in 1..Len(ts) |->
               [id |-> j,
                attrs |-> {PropSet(m_propname_ids.terminal_id, ts[j])},
                shapes |-> ClusterShapes(gpt[ts[j]])]]
      model ==
        [device_class |-> mp_device_class, name |-> cell_name, cell_index |-> ci,
         terminal_clusters |-> [t \in DOMAIN gpt |-> CHOOSE j \in 1..Len(ts) : ts[j] = t]]
      S1 == IF miss
              THEN [cells |-> MapPut(S.cells, ci, device_cell),
                    nl |-> [S.nl EXCEPT !.device_models = Append(@, model)],
                    reg |-> MapPut(S.reg, key, [cell |-> ci, dm |-> dm]),
                    cl |-> MapPut(S.cl, ci, MapGet(S.cl, ci, <<>>) \o cc)]
              ELSE S
      c == S1.reg[key]
      inst == [cell |-> c.cell, trans |-> disp, props |-> PropSet(m_propname_ids.device_id, d)]
  IN  [S1 EXCEPT
         !.nl.circuits[mp_circuit].devices[di].device_model = c.dm,
         !.cells[m_cell_index].insts = Append(@, inst)]

\* push_new_devices: the loop over m_new_devices in the order of the ids
RECURSIVE push_loop(_, _, _)
push_loop(S, dbu, ids) ==
  IF ids = <<>> THEN S ELSE push_loop(push_new_device(S, dbu, Head(ids)), dbu, Tail(ids))

push_new_devices(S, dbu) == push_loop(S, dbu, Ascending(DOMAIN m_new_devices))

\* db::PropertiesRepository::prop_name_id: the id of a name, made on first use
prop_names_with(names, name) ==
  IF \E i \in DOMAIN names : names[i] = name THEN names ELSE Append(names, name)

prop_name_id(names, name) ==
  (CHOOSE i \in DOMAIN prop_names_with(names, name) : prop_names_with(names, name)[i] = name) - 1

\* is_device_cell (layout, ci)
is_device_cell_for_any_properties(lay, ci) == lay.cells[ci].props # {}

is_device_cell(lay, ci) ==
  LET ps == lay.cells[ci].props IN
  IF ps = {} THEN FALSE
  ELSE IF ~\E i \in DOMAIN lay.prop_names : lay.prop_names[i] = "DEVICE_CLASS" THEN FALSE
  ELSE \E j \in ps : j[1] = prop_name_id(lay.prop_names, "DEVICE_CLASS")

\* cell.collect_called_cells on top of the cells already collected
RECURSIVE called_cells(_, _)
called_cells(cells, seen) ==
  LET more == seen \cup
                UNION {{cells[c].insts[i].cell : i \in DOMAIN cells[c].insts} : c \in seen}
  IN  IF more = seen THEN seen ELSE called_cells(cells, more)

\* device_clusters.clusters_per_cell (ci) as built for the layout: for every
\* cluster of the cell whether it is a root cluster
device_clusters(ci) ==
  IF ci = 0 THEN <<TRUE>> ELSE IF ci = 1 THEN <<FALSE, TRUE>> ELSE <<>>

\* a new circuit for cell ci whether the netlist has one or not
circuit_of_always_new(nl, cells, ci) ==
  [nl |-> [nl EXCEPT !.circuits =
             Append(@, [cell_index |-> ci, name |-> cells[ci].name, devices |-> <<>>])],
   circuit |-> Len(nl.circuits) + 1]

\* the circuit of cell ci: the one the netlist has for the cell index, or a
\* new one
circuit_of(nl, cells, ci) ==
  LET found == {i \in DOMAIN nl.circuits : nl.circuits[i].cell_index = ci} IN
  IF found # {}
    THEN [nl |-> nl, circuit |-> Least(found)]
    ELSE [nl |-> [nl EXCEPT !.circuits =
                    Append(@, [cell_index |-> ci, name |-> cells[ci].name, devices |-> <<>>])],
          circuit |-> Len(nl.circuits) + 1]

\* the loops taking every cluster, root or not
RECURSIVE cells_loop_over_all_clusters(_, _, _, _, _, _)
cells_loop_over_all_clusters(lay, nl, todo, k, ci0, circuit0) ==
  IF todo = <<>>
    THEN [nl |-> nl, todo |-> <<>>, k |-> 0, cell_index |-> ci0, circuit |-> circuit0,
          at |-> "idle"]
  ELSE IF k = 0 /\ is_device_cell(lay, Head(todo))
    THEN cells_loop_over_all_clusters(lay, nl, Tail(todo), 0, ci0, circuit0)
  ELSE
    LET ci == Head(todo)
        c == IF k = 0 THEN circuit_of(nl, lay.cells, ci) ELSE [nl |-> nl, circuit |-> circuit0]
        all == {j \in DOMAIN device_clusters(ci) : j > k}
    IN  IF all # {}
          THEN [nl |-> c.nl, todo |-> todo, k |-> Least(all), cell_index |-> ci,
                circuit |-> c.circuit, at |-> "extract_devices"]
          ELSE cells_loop_over_all_clusters(lay, c.nl, Tail(todo), 0, ci, c.circuit)

\* The loops of extract_without_initialize over the cells and their clusters,
\* from cluster k of the first cell of todo on (k = 0: the cell is yet to be
\* entered), up to the next call of extract_devices or to the end.
RECURSIVE cells_loop(_, _, _, _, _, _)
cells_loop(lay, nl, todo, k, ci0, circuit0) ==
  IF todo = <<>>
    THEN [nl |-> nl, todo |-> <<>>, k |-> 0, cell_index |-> ci0, circuit |-> circuit0,
          at |-> "idle"]
  ELSE IF k = 0 /\ is_device_cell(lay, Head(todo))
    THEN cells_loop(lay, nl, Tail(todo), 0, ci0, circuit0)
  ELSE
    LET ci == Head(todo)
        c == IF k = 0 THEN circuit_of(nl, lay.cells, ci) ELSE [nl |-> nl, circuit |-> circuit0]
        roots == {j \in DOMAIN device_clusters(ci) : j > k /\ device_clusters(ci)[j]}
    IN  IF roots # {}
          THEN [nl |-> c.nl, todo |-> todo, k |-> Least(roots), cell_index |-> ci,
                circuit |-> c.circuit, at |-> "extract_devices"]
          ELSE cells_loop(lay, c.nl, Tail(todo), 0, ci, c.circuit)

\* initialize () up to the call of setup ()
initialize ==
  /\ m_layer_definitions' = <<>>
  /\ mp_device_class' = 0
  /\ m_propname_ids' = [terminal_id |-> 0, device_id |-> 0, device_class |-> 0]
  /\ m_netlist' = 1

\* define_layer (name, description)
define_layer(name) ==
  m_layer_definitions' =
    Append(m_layer_definitions, [name |-> name, index |-> Len(m_layer_definitions)])

\* whether register_device_class throws
register_device_class_throws == mp_device_class # 0 \/ m_name = ""

\* register_device_class (device_class) when it does not throw
register_device_class ==
  /\ mp_device_class' = Len(netlist.device_classes) + 1
  /\ netlist' = [netlist EXCEPT !.device_classes =
                   Append(@, [name |-> m_name, parameter_definitions |-> {0}])]

\* create_device () when a device class is registered, and the parameter and
\* the position extract_devices gives the device
create_device(value, position) ==
  netlist' = [netlist EXCEPT !.circuits[mp_circuit] =
                add_device(@, [id |-> 0, device_class |-> mp_device_class,
                               parameters |-> [p \in {0} |-> value],
                               position |-> position, device_model |-> 0])]

\* define_terminal (device, terminal_id, geometry_index, polygon)
define_terminal(device_id, terminal_id, geometry_index, polygon) ==
  LET layer_index == m_layers[geometry_index + 1]
      gpt == MapGet(m_new_devices, device_id, EmptyMap)
      gt == MapGet(gpt, terminal_id, EmptyMap)
      gl == MapGet(gt, layer_index, <<>>)
  IN  m_new_devices' =
        MapPut(m_new_devices, device_id,
               MapPut(gpt, terminal_id, MapPut(gt, layer_index, Append(gl, polygon))))

\* cell_name (): the name of the cell m_cell_index of the layout, or the empty
\* string before the first extraction
cell_name ==
  IF mp_layout # 0 THEN x_layout.cells[m_cell_index].name ELSE [base |-> <<"", "">>, n |-> 0]

\* db::NetlistDeviceExtractorError (cell_name, msg)
NetlistDeviceExtractorError(name, msg) ==
  [cell_name |-> name, message |-> msg, category_name |-> "", category_description |-> "",
   geometry |-> EmptyBox]

\* error (msg)
error_at_the_front(errors, msg) == <<NetlistDeviceExtractorError(cell_name, msg)>> \o errors

error(errors, msg) == Append(errors, NetlistDeviceExtractorError(cell_name, msg))

\* error (msg, poly)
error_with_geometry(errors, msg, poly) ==
  [error(errors, msg) EXCEPT ![Len(errors) + 1].geometry = poly]

\* error (category_name, category_description, msg)
error_with_category(errors, category_name, category_description, msg) ==
  [error(errors, msg) EXCEPT ![Len(errors) + 1].category_name = category_name,
                             ![Len(errors) + 1].category_description = category_description]

\* error (category_name, category_description, msg, poly)
error_with_category_and_geometry(errors, category_name, category_description, msg, poly) ==
  [error_with_category(errors, category_name, category_description, msg)
     EXCEPT ![Len(errors) + 1].geometry = poly]

-----------------------------------------------------------------------------
(* SpecExtract: one extractor, extract () called on a layout (TOP, cell 0,  *)
(* holding one instance of A, cell 1) with a netlist and a cluster store.  *)
(* TOP has one cluster, a root; A has two, the second a root.  setup () and extract_devices () are the subclass's: *)
(* they call define_layer, register_device_class, create_device and        *)
(* define_terminal as they like.                                           *)

\* the number of create_device and define_terminal calls the subclass makes
\* in the life of the extractor
MaxCalls == 5

DxNames == {"MOS", ""}

\* the extract () calls made: the layers argument of each, which gives the
\* layer index per geometry index
DxExtractCalls == << <<2, 1>> >>

DxLayerNames == <<"SD", "G">>

\* what extract_devices makes devices with: the value of the parameter and
\* the position, in half database units
DxDevices ==
  { [value |-> 1, position |-> <<0, 0>>],
    [value |-> 1, position |-> <<1, 0>>],
    [value |-> 2, position |-> <<0, 0>>] }

\* what extract_devices defines terminals with: terminal id, geometry index
\* and polygon, the polygon given relative to the device
DxTerminalPolygons ==
  { [terminal_id |-> 0, geometry_index |-> 0, polygon |-> Bx(0, 0, 1, 1)],
    [terminal_id |-> 1, geometry_index |-> 1, polygon |-> Bx(0, 0, 1, 1)] }

\* the same for the box overload
DxTerminalBoxes ==
  { [terminal_id |-> 0, geometry_index |-> 0, box |-> Bx(0, 0, 1, 1)] }

\* the same for the point overload
DxTerminalPoints == { [terminal_id |-> 0, geometry_index |-> 0, point |-> <<1, 1>>] }

DxCells ==
  (0 :> [NewCell([base |-> <<"", "TOP">>, n |-> 0]) EXCEPT !.insts = <<[cell |-> 1, trans |-> <<0, 0>>, props |-> {}]>>])
  @@ (1 :> NewCell([base |-> <<"", "A">>, n |-> 0]))

otherVars == <<cmpVars, hbVars, drvVars, clipVars, redVars, cvVars>>

\* how far extract () has come: in setup, in extract_devices or not running,
\* whether it ended by an exception, its layers argument, the cells yet to be
\* looked at, the cluster extract_devices runs for, the device it created
\* last, the number of extract () calls made, the number of create_device,
\* define_terminal and error calls made, the extract () calls to come, the
\* number of calls the subclass may make, the calls logged, the calls to
\* replay, and netlist, layout and error list as they were when the running
\* or last extract () was called
At(at, raised, layers, todo, k, device, n) ==
  [at |-> at, raised |-> raised, layers |-> layers, todo |-> todo, k |-> k,
   device |-> device, n |-> n, calls |-> x_at.calls, plan |-> x_at.plan,
   budget |-> x_at.budget, log |-> x_at.log, script |-> x_at.script,
   before |-> x_at.before, deep |-> x_at.deep, dss |-> x_at.dss,
   layer_map |-> x_at.layer_map, deep_plan |-> x_at.deep_plan]

\* extract () has ended, by returning or by an exception
Ended(raised) == At("idle", raised, <<>>, <<>>, 0, 0, x_at.n)

\* the deep shape store: its layout and its initial cell
DxDeepShapeStore == [layout |-> 1, initial_cell |-> 0]

\* The subclass is a program: called again on the same input, setup () and
\* extract_devices () make the calls they made before.  The calls of the
\* first extract () are logged when another extract () is to come, and a later
\* extract () takes them from the script.
Replaying == x_at.n > 1

Logging == x_at.n = 1 /\ (x_at.plan # <<>> \/ x_at.deep_plan # <<>>)

\* the subclass may make the call c, an operation and its arguments
MayCall(c) ==
  Replaying => /\ x_at.script # <<>>
               /\ Head(x_at.script)[1] = c[1]
               /\ Head(x_at.script)[2] = c[2]

\* the subclass has calls left to make
InBudget == Replaying \/ x_at.calls < x_at.budget

\* how far extract () has come after the call c
Called(at, c) ==
  [at EXCEPT !.log = IF Logging THEN Append(@, c) ELSE @,
             !.script = IF Replaying THEN Tail(@) ELSE @]

\* the extractor after construction, with the extract () calls to come, the
\* number of calls the subclass may make, and the layout
InitExtractor(plan, deep_plan, budget, lay) ==
  /\ m_name \in DxNames
  /\ m_layer_definitions = <<>>
  /\ mp_device_class = 0
  /\ m_netlist = 0
  /\ mp_layout = 0
  /\ m_layers = <<>>
  /\ m_cell_index = 0
  /\ mp_circuit = 0
  /\ m_new_devices = EmptyMap
  /\ m_device_cells = EmptyMap
  /\ m_propname_ids = [terminal_id |-> 0, device_id |-> 0, device_class |-> 0]
  /\ netlist = [device_classes |-> <<>>, circuits |-> <<>>, device_models |-> <<>>]
  /\ m_errors = <<>>
  /\ x_layout = lay
  /\ x_clusters = EmptyMap
  /\ x_at = [at |-> "idle", raised |-> FALSE, layers |-> <<>>, todo |-> <<>>, k |-> 0,
             device |-> 0, n |-> 0, calls |-> 0, plan |-> plan, budget |-> budget,
             log |-> <<>>, script |-> <<>>,
             before |-> [netlist |-> netlist, layout |-> lay, errors |-> <<>>],
             deep |-> FALSE, dss |-> DxDeepShapeStore, layer_map |-> EmptyMap,
             deep_plan |-> deep_plan]
  /\ x_defined = {}
  /\ CmpIdle
  /\ HBIdle
  /\ ClipIdle
  /\ CvIdle
  /\ RedIdle

InitExtract ==
  InitExtractor(DxExtractCalls, <<>>, MaxCalls, [dbu |-> 2, prop_names |-> <<>>, cells |-> DxCells])

\* extract (layout, cell, layers, nl, clusters) is called: initialize () up to
\* setup ()
Extract ==
  /\ x_at.at = "idle"
  /\ x_at.plan # <<>>
  /\ initialize
  /\ x_at' = [At("setup", FALSE, Head(x_at.plan), <<>>, 0, 0, x_at.n + 1)
               EXCEPT !.plan = Tail(x_at.plan), !.script = x_at.log,
                      !.before = [netlist |-> netlist, layout |-> x_layout,
                                  errors |-> m_errors],
                      !.deep = FALSE, !.layer_map = EmptyMap]
  /\ UNCHANGED <<m_errors, m_name, mp_layout, m_layers, m_cell_index, mp_circuit, m_new_devices,
                 m_device_cells, netlist, x_layout, x_clusters, x_defined, otherVars>>

\* setup () calls define_layer
DefineLayer ==
  /\ x_at.at = "setup"
  /\ Len(m_layer_definitions) < Len(DxLayerNames)
  /\ define_layer(DxLayerNames[Len(m_layer_definitions) + 1])
  /\ UNCHANGED <<m_errors, m_name, mp_device_class, m_netlist, mp_layout, m_layers, m_cell_index,
                 mp_circuit, m_new_devices, m_device_cells, m_propname_ids, netlist,
                 x_layout, x_clusters, x_at, x_defined, otherVars>>

\* setup () calls register_device_class; its exception ends extract ()
RegisterDeviceClass ==
  /\ x_at.at = "setup"
  /\ MayCall(<<"register_device_class", 0>>)
  /\ IF register_device_class_throws
       THEN /\ x_at' = Called(Ended(TRUE), <<"register_device_class", 0>>)
            /\ UNCHANGED <<mp_device_class, netlist>>
       ELSE /\ register_device_class
            /\ x_at' = Called(x_at, <<"register_device_class", 0>>)
  /\ UNCHANGED <<m_errors, m_name, m_layer_definitions, m_netlist, mp_layout, m_layers, m_cell_index,
                 mp_circuit, m_new_devices, m_device_cells, m_propname_ids,
                 x_layout, x_clusters, x_defined, otherVars>>

\* extract_without_initialize (layout, cell, clusters, layers) up to the first
\* call of extract_devices, or to its end if there is no root cluster
extract_without_initialize(layers) ==
  LET n1 == prop_names_with(x_layout.prop_names, "TERMINAL_ID")
      n2 == prop_names_with(n1, "DEVICE_ID")
      n3 == prop_names_with(n2, "DEVICE_CLASS")
      lay == [x_layout EXCEPT !.prop_names = n3]
      todo == Ascending(called_cells(lay.cells, {0}))
      r == cells_loop(lay, netlist, todo, 0, m_cell_index, mp_circuit)
  IN  /\ mp_layout' = 1
      /\ m_layers' = layers
      /\ m_propname_ids' = [terminal_id |-> prop_name_id(n1, "TERMINAL_ID"),
                            device_id |-> prop_name_id(n2, "DEVICE_ID"),
                            device_class |-> prop_name_id(n3, "DEVICE_CLASS")]
      /\ x_layout' = lay
      /\ netlist' = r.nl
      /\ m_cell_index' = r.cell_index
      /\ mp_circuit' = r.circuit
      /\ x_at' = Called(IF r.at = "idle" THEN Ended(FALSE)
                        ELSE At(r.at, FALSE, layers, r.todo, r.k, 0, x_at.n),
                        <<"return", 0>>)

\* setup () returns to extract (layout, cell, layers, nl, clusters):
\* extract_without_initialize
SetupReturn ==
  /\ x_at.at = "setup"
  /\ ~x_at.deep
  /\ Len(x_at.layers) = Len(m_layer_definitions)
  /\ MayCall(<<"return", 0>>)
  /\ extract_without_initialize(x_at.layers)
  /\ UNCHANGED <<m_errors, m_name, m_layer_definitions, mp_device_class, m_netlist, m_new_devices,
                 m_device_cells, x_clusters, x_defined, otherVars>>

\* The loop of extract (dss, layer_map, nl, clusters) over the layer
\* definitions from definition i on: the layer indexes collected, or the
\* exception of the first definition whose region is missing, null, not a
\* deep region or not from the layout and initial cell of the deep store.
RECURSIVE deep_layers_without_source_check(_, _, _, _)
deep_layers_without_source_check(dss, layer_map, i, layers) ==
  IF i > Len(m_layer_definitions) THEN [throws |-> FALSE, layers |-> layers]
  ELSE LET name == m_layer_definitions[i].name IN
       IF name \notin DOMAIN layer_map THEN [throws |-> TRUE, layers |-> layers]
       ELSE IF layer_map[name].null THEN [throws |-> TRUE, layers |-> layers]
       ELSE IF ~layer_map[name].deep THEN [throws |-> TRUE, layers |-> layers]
       ELSE deep_layers_without_source_check(dss, layer_map, i + 1,
                                             Append(layers, layer_map[name].layer))

RECURSIVE deep_layers(_, _, _, _)
deep_layers(dss, layer_map, i, layers) ==
  IF i > Len(m_layer_definitions) THEN [throws |-> FALSE, layers |-> layers]
  ELSE LET name == m_layer_definitions[i].name IN
       IF name \notin DOMAIN layer_map THEN [throws |-> TRUE, layers |-> layers]
       ELSE IF layer_map[name].null THEN [throws |-> TRUE, layers |-> layers]
       ELSE IF ~layer_map[name].deep THEN [throws |-> TRUE, layers |-> layers]
       ELSE IF \/ layer_map[name].layout # dss.layout
               \/ layer_map[name].initial_cell # dss.initial_cell
         THEN [throws |-> TRUE, layers |-> layers]
       ELSE deep_layers(dss, layer_map, i + 1, Append(layers, layer_map[name].layer))

\* extract (dss, layer_map, nl, clusters) is called: initialize () up to
\* setup ()
ExtractDeep ==
  /\ x_at.at = "idle"
  /\ x_at.plan = <<>> /\ x_at.deep_plan # <<>>
  /\ initialize
  /\ x_at' = [At("setup", FALSE, <<>>, <<>>, 0, 0, x_at.n + 1)
               EXCEPT !.deep_plan = Tail(x_at.deep_plan), !.script = x_at.log,
                      !.before = [netlist |-> netlist, layout |-> x_layout,
                                  errors |-> m_errors],
                      !.deep = TRUE, !.layer_map = Head(x_at.deep_plan)]
  /\ UNCHANGED <<m_errors, m_name, mp_layout, m_layers, m_cell_index, mp_circuit, m_new_devices,
                 m_device_cells, netlist, x_layout, x_clusters, x_defined, otherVars>>

\* setup () returns to extract (dss, layer_map, nl, clusters): the layers are
\* looked up, then extract_without_initialize
SetupReturnDeep ==
  /\ x_at.at = "setup"
  /\ x_at.deep
  /\ MayCall(<<"return", 0>>)
  /\ LET r == deep_layers(x_at.dss, x_at.layer_map, 1, <<>>) IN
     IF r.throws
       THEN /\ x_at' = Called(Ended(TRUE), <<"return", 0>>)
            /\ UNCHANGED <<mp_layout, m_layers, m_propname_ids, x_layout, netlist,
                           m_cell_index, mp_circuit>>
       ELSE extract_without_initialize(r.layers)
  /\ UNCHANGED <<m_errors, m_name, m_layer_definitions, mp_device_class, m_netlist, m_new_devices,
                 m_device_cells, x_clusters, x_defined, otherVars>>

\* extract_devices calls create_device and sets the device's parameter and
\* position; without a device class the exception ends extract ()
CreateDevice ==
  /\ x_at.at = "extract_devices"
  /\ InBudget
  /\ \E d \in DxDevices :
       /\ MayCall(<<"create_device", d>>)
       /\ IF mp_device_class = 0
            THEN /\ x_at' = Called(Ended(TRUE), <<"create_device", d>>)
                 /\ UNCHANGED netlist
            ELSE /\ create_device(d.value, d.position)
                 /\ x_at' = Called([x_at EXCEPT
                                      !.device = Len(netlist.circuits[mp_circuit].devices) + 1,
                                      !.calls = @ + 1], <<"create_device", d>>)
  /\ UNCHANGED <<extractorVars, x_layout, x_clusters, x_defined, otherVars>>

\* a define_terminal call of extract_devices for the device it created last,
\* with the polygon placed at the device
DefineTerminal(overload, terminal_id, geometry_index, polygon) ==
  LET device == netlist.circuits[mp_circuit].devices[x_at.device]
      placed == BoxMoved(polygon, Disp(device.position, x_layout.dbu))
      call == <<overload, <<terminal_id, geometry_index, polygon>> >>
  IN  /\ mp_layout # 0
      /\ geometry_index < Len(m_layers)
      /\ InBudget
      /\ MayCall(call)
      /\ define_terminal(device.id, terminal_id, geometry_index, placed)
      /\ x_defined' = x_defined \cup
           {[circuit |-> mp_circuit, id |-> device.id, terminal_id |-> terminal_id,
             layer |-> m_layers[geometry_index + 1], polygon |-> placed]}
      /\ x_at' = Called([x_at EXCEPT !.calls = @ + 1], call)
      /\ UNCHANGED <<m_errors, m_name, m_layer_definitions, mp_device_class, m_netlist, mp_layout,
                     m_layers, m_cell_index, mp_circuit, m_device_cells, m_propname_ids,
                     netlist, x_layout, x_clusters, otherVars>>

\* define_terminal (device, terminal_id, geometry_index, const db::Polygon &)
DefineTerminalPolygon ==
  /\ x_at.at = "extract_devices" /\ x_at.device # 0
  /\ \E d \in DxTerminalPolygons :
       DefineTerminal("polygon", d.terminal_id, d.geometry_index, d.polygon)

\* define_terminal (device, terminal_id, layer_index, const db::Box &)
DefineTerminalBox ==
  /\ x_at.at = "extract_devices" /\ x_at.device # 0
  /\ \E d \in DxTerminalBoxes :
       DefineTerminal("box", d.terminal_id, d.geometry_index, d.box)

\* define_terminal (device, terminal_id, layer_index, const db::Point &)
DefineTerminalPoint ==
  /\ x_at.at = "extract_devices" /\ x_at.device # 0
  /\ \E d \in DxTerminalPoints :
       DefineTerminal("point", d.terminal_id, d.geometry_index,
                      Bx(d.point[1] - 1, d.point[2] - 1, d.point[1] + 1, d.point[2] + 1))

\* extract_devices returns: push_new_devices, then on to the next root cluster
\* or to the end of extract ().  (S and r are bound over singleton sets to
\* have them evaluated once.)
ExtractDevicesReturn ==
  /\ x_at.at = "extract_devices"
  /\ MayCall(<<"return", 0>>)
  /\ \E S \in {push_new_devices([cells |-> x_layout.cells, nl |-> netlist,
                                  reg |-> m_device_cells, cl |-> x_clusters], x_layout.dbu)} :
     \E r \in {cells_loop([x_layout EXCEPT !.cells = S.cells], S.nl, x_at.todo, x_at.k,
                          m_cell_index, mp_circuit)} :
     LET lay == [x_layout EXCEPT !.cells = S.cells]
     IN  /\ m_new_devices' = EmptyMap
         /\ m_device_cells' = S.reg
         /\ x_clusters' = S.cl
         /\ x_layout' = lay
         /\ netlist' = r.nl
         /\ m_cell_index' = r.cell_index
         /\ mp_circuit' = r.circuit
         /\ x_at' = Called(IF r.at = "idle" THEN Ended(FALSE)
                           ELSE At(r.at, FALSE, x_at.layers, r.todo, r.k, 0, x_at.n),
                           <<"return", 0>>)
  /\ UNCHANGED <<m_errors, m_name, m_layer_definitions, mp_device_class, m_netlist, mp_layout,
                 m_layers, m_propname_ids, x_defined, otherVars>>

\* what extract_devices reports errors with
DxErrors ==
  { [msg |-> "no gate", category_name |-> "warn", category_description |-> "warnings",
     poly |-> Bx(0, 0, 2, 2)] }

\* a call of error () by extract_devices: the overload and its arguments
Error(overload, e, errors) ==
  /\ x_at.at = "extract_devices"
  /\ InBudget
  /\ MayCall(<<overload, e>>)
  /\ m_errors' = errors
  /\ x_at' = Called([x_at EXCEPT !.calls = @ + 1], <<overload, e>>)
  /\ UNCHANGED <<m_name, m_layer_definitions, mp_device_class, m_netlist, mp_layout,
                 m_layers, m_cell_index, mp_circuit, m_new_devices, m_device_cells,
                 m_propname_ids, netlist, x_layout, x_clusters, x_defined, otherVars>>

\* error (msg)
ErrorMsg == \E e \in DxErrors : Error("error", e, error(m_errors, e.msg))

\* error (msg, poly)
ErrorMsgPolygon ==
  \E e \in DxErrors :
    Error("error with geometry", e, error_with_geometry(m_errors, e.msg, e.poly))

\* error (category_name, category_description, msg)
ErrorCategory ==
  \E e \in DxErrors :
    Error("error with category", e,
          error_with_category(m_errors, e.category_name, e.category_description, e.msg))

\* error (category_name, category_description, msg, poly)
ErrorCategoryPolygon ==
  \E e \in DxErrors :
    Error("error with category and geometry", e,
          error_with_category_and_geometry(m_errors, e.category_name,
                                           e.category_description, e.msg, e.poly))

NextExtract ==
  \/ Extract
  \/ DefineLayer
  \/ RegisterDeviceClass
  \/ SetupReturn
  \/ CreateDevice
  \/ DefineTerminalPolygon
  \/ DefineTerminalBox
  \/ DefineTerminalPoint
  \/ ExtractDevicesReturn

SpecExtract == InitExtract /\ [][NextExtract]_vars

-----------------------------------------------------------------------------
(* SpecExtractAgain: extract () called twice on the same extractor with the *)
(* same layout, top cell, layers, netlist and cluster store, by a subclass *)
(* that also reports errors.  Cell A carries a property set of its own.    *)

\* the number of create_device, define_terminal and error calls the subclass
\* makes in the first extract ()
MaxCallsAgain == 2

DxExtractCallsAgain == << <<2, 1>>, <<2, 1>> >>

DxCellsAgain == [DxCells EXCEPT ![1].props = PropSet(0, 1)]

InitExtractAgain ==
  InitExtractor(DxExtractCallsAgain, <<>>, MaxCallsAgain,
                [dbu |-> 2, prop_names |-> <<"NAME">>, cells |-> DxCellsAgain])

NextExtractAgain ==
  \/ Extract
  \/ DefineLayer
  \/ RegisterDeviceClass
  \/ SetupReturn
  \/ CreateDevice
  \/ DefineTerminalPolygon
  \/ DefineTerminalBox
  \/ DefineTerminalPoint
  \/ ErrorMsg
  \/ ErrorMsgPolygon
  \/ ErrorCategory
  \/ ErrorCategoryPolygon
  \/ ExtractDevicesReturn

SpecExtractAgain == InitExtractAgain /\ [][NextExtractAgain]_vars

-----------------------------------------------------------------------------
(* SpecExtractDeep: extract (layout, cell, layers, nl, clusters) followed by *)
(* extract (dss, layer_map, nl, clusters) on the same extractor and        *)
(* netlist, the deep shape store holding the same layout and top cell.     *)

\* the number of create_device, define_terminal and error calls the subclass
\* makes in the first extract ()
MaxCallsDeep == 2

\* a db::Region of a layer map: whether the pointer is null, whether its
\* delegate is a db::DeepRegion, and the layout, initial cell and layer of
\* its deep layer
DxRegion(null, deep, lay, initial_cell, layer) ==
  [null |-> null, deep |-> deep, layout |-> lay, initial_cell |-> initial_cell,
   layer |-> layer]

DxDeepRegion(layer) == DxRegion(FALSE, TRUE, 1, 0, layer)

\* the layer maps extract () is called with: a good one, one without "SD",
\* and one each with a null pointer for "SD", a flat region for "G", a region
\* of another layout for "G" and a region of another initial cell for "G"
DxLayerMaps ==
  { ("SD" :> DxDeepRegion(2)) @@ ("G" :> DxDeepRegion(1)),
    ("G" :> DxDeepRegion(1)),
    ("SD" :> DxRegion(TRUE, FALSE, 0, 0, 0)) @@ ("G" :> DxDeepRegion(1)),
    ("SD" :> DxDeepRegion(2)) @@ ("G" :> DxRegion(FALSE, FALSE, 0, 0, 0)),
    ("SD" :> DxDeepRegion(2)) @@ ("G" :> DxRegion(FALSE, TRUE, 2, 0, 1)),
    ("SD" :> DxDeepRegion(2)) @@ ("G" :> DxRegion(FALSE, TRUE, 1, 1, 1)) }

InitExtractDeep ==
  \E layer_map \in DxLayerMaps :
    InitExtractor(DxExtractCalls, <<layer_map>>, MaxCallsDeep,
                  [dbu |-> 2, prop_names |-> <<>>, cells |-> DxCells])

NextExtractDeep ==
  \/ Extract
  \/ ExtractDeep
  \/ DefineLayer
  \/ RegisterDeviceClass
  \/ SetupReturn
  \/ SetupReturnDeep
  \/ CreateDevice
  \/ DefineTerminalPolygon
  \/ DefineTerminalBox
  \/ DefineTerminalPoint
  \/ ExtractDevicesReturn

SpecExtractDeep == InitExtractDeep /\ [][NextExtractDeep]_vars

-----------------------------------------------------------------------------
(* Properties of the device cell registry *)

\* the devices of the netlist, each as <<circuit, index in the circuit>>
Devices ==
  UNION { { <<c, i>> : i \in DOMAIN netlist.circuits[c].devices } :
          c \in DOMAIN netlist.circuits }

DeviceAt(d) == netlist.circuits[d[1]].devices[d[2]]

\* the polygons define_terminal was called with for a device, per terminal and
\* layer, moved so that the device's position is the origin
NormalisedGeometry(d) ==
  { [terminal_id |-> q.terminal_id, layer |-> q.layer,
     polygon |-> BoxMoved(q.polygon, TransInv(Disp(DeviceAt(d).position, x_layout.dbu)))] :
      q \in {q \in x_defined : q.circuit = d[1] /\ q.id = DeviceAt(d).id} }

SameKey(d1, d2) ==
  /\ NormalisedGeometry(d1) = NormalisedGeometry(d2)
  /\ DeviceAt(d1).parameters = DeviceAt(d2).parameters

\* the device has been folded into a device cell
Folded(d) == DeviceAt(d).device_model # 0

\* the instances tagged with the device's id in the cell of the device's circuit
InstancesOf(d) ==
  LET insts == x_layout.cells[netlist.circuits[d[1]].cell_index].insts IN
  { i \in DOMAIN insts :
      insts[i].props = PropSet(prop_name_id(x_layout.prop_names, "DEVICE_ID"), DeviceAt(d).id) }

\* the cell index in the instance of a folded device
InstanceCell(d) ==
  x_layout.cells[netlist.circuits[d[1]].cell_index].insts[CHOOSE i \in InstancesOf(d) : TRUE].cell

DeviceCells == {c \in DOMAIN x_layout.cells : is_device_cell(x_layout, c)}

\* the key of a device as the specification defines it
KeyOf(d) == <<NormalisedGeometry(d), DeviceAt(d).parameters>>

\* C10: two folded devices with equal normalised terminal polygon sets and
\* equal parameter maps have the same device model and instances of the same
\* cell, which is the model's cell; two with different keys have different
\* models and cells; there are as many device cells (and models, and registry
\* entries) as there are keys among the folded devices, so none was made on a
\* registry hit; and when extract () has returned every device with terminal
\* geometry is folded.  (key and cell are bound over singleton sets to have
\* them evaluated once.)
C10_DeviceCellCanonical ==
  \E key \in {[d \in Devices |-> KeyOf(d)]} :
  \E cell \in {[d \in Devices |-> IF Folded(d) THEN InstanceCell(d) ELSE 0 - 1]} :
  LET folded == {d \in Devices : Folded(d)}
      keys == {key[d] : d \in folded}
  IN  /\ \A d \in folded :
           /\ Cardinality(InstancesOf(d)) = 1
           /\ cell[d] = netlist.device_models[DeviceAt(d).device_model].cell_index
           /\ cell[d] \in DeviceCells
      /\ \A d1, d2 \in folded :
           /\ key[d1] = key[d2] <=> DeviceAt(d1).device_model = DeviceAt(d2).device_model
           /\ key[d1] = key[d2] <=> cell[d1] = cell[d2]
      /\ Cardinality(DeviceCells) = Cardinality(keys)
      /\ Len(netlist.device_models) = Cardinality(keys)
      /\ Cardinality(DOMAIN m_device_cells) = Cardinality(keys)
      /\ x_at.at = "idle" =>
           /\ \A d \in Devices : key[d][1] # {} => Folded(d)
           /\ \A d1, d2 \in Devices :
                key[d1] = key[d2] => DeviceAt(d1).device_model = DeviceAt(d2).device_model

\* extract () has returned; two devices at different positions in different
\* cells share one device cell, whose maker had its one polygon defined twice
C10_SharedAcrossCells ==
  /\ x_at.at = "idle" /\ x_at.n = 1 /\ ~x_at.raised
  /\ \E d1, d2 \in Devices :
       /\ d1[1] # d2[1]
       /\ DeviceAt(d1).position # DeviceAt(d2).position
       /\ Folded(d1) /\ Folded(d2)
       /\ SameKey(d1, d2)
       /\ InstanceCell(d1) = InstanceCell(d2)
       /\ Cardinality(DeviceCells) = 1
       /\ Cardinality(NormalisedGeometry(d1)) = 1
       /\ Len(x_layout.cells[InstanceCell(d1)].shapes) = 2

-----------------------------------------------------------------------------
(* Properties of the tags push_new_devices writes *)

\* the entries of a property set for a property name
Entries(props, name) ==
  {e \in props : e[1] = prop_name_id(x_layout.prop_names, name)}

\* the cells the device models of the netlist stand for
ModelCells == {netlist.device_models[i].cell_index : i \in DOMAIN netlist.device_models}

\* the define_terminal calls that gave a device cell the shape: calls for a
\* device folded into the cell, on the shape's layer, whose polygon moved to
\* the device's origin is the shape's polygon
DefinedFor(c, shape) ==
  {q \in x_defined :
     \E d \in Devices :
       /\ d[1] = q.circuit /\ DeviceAt(d).id = q.id
       /\ Folded(d) /\ netlist.device_models[DeviceAt(d).device_model].cell_index = c
       /\ q.layer = shape.layer
       /\ BoxMoved(q.polygon, TransInv(Disp(DeviceAt(d).position, x_layout.dbu))) = shape.poly}

\* the shape carries the one TERMINAL_ID of define_terminal calls it is from
C11_ShapeTagged(c, shape) ==
  /\ Cardinality(Entries(shape.props, "TERMINAL_ID")) = 1
  /\ \E e \in Entries(shape.props, "TERMINAL_ID") :
       \E q \in DefinedFor(c, shape) : q.terminal_id = e[2]

\* the instance of a device cell in the cell of a circuit carries the one
\* DEVICE_ID of a device of the circuit that has the cell as its model's
C11_InstanceTagged(c, inst) ==
  /\ Cardinality(Entries(inst.props, "DEVICE_ID")) = 1
  /\ \E e \in Entries(inst.props, "DEVICE_ID") :
       \E d \in Devices :
         /\ netlist.circuits[d[1]].cell_index = c
         /\ DeviceAt(d).id = e[2]
         /\ Folded(d)
         /\ netlist.device_models[DeviceAt(d).device_model].cell_index = inst.cell

\* C11: every shape of a device cell carries exactly one TERMINAL_ID entry,
\* the terminal id of a define_terminal call the shape is from; every instance
\* of a device cell carries exactly one DEVICE_ID entry, the id of its device;
\* every device cell carries DEVICE_CLASS with the name of the device class of
\* its model.
C11_TagsWritten ==
  /\ \A c \in ModelCells :
       \A i \in DOMAIN x_layout.cells[c].shapes :
         C11_ShapeTagged(c, x_layout.cells[c].shapes[i])
  /\ \A c \in DOMAIN x_layout.cells :
       \A i \in DOMAIN x_layout.cells[c].insts :
         x_layout.cells[c].insts[i].cell \in ModelCells =>
           C11_InstanceTagged(c, x_layout.cells[c].insts[i])
  /\ \A i \in DOMAIN netlist.device_models :
       Entries(x_layout.cells[netlist.device_models[i].cell_index].props, "DEVICE_CLASS")
         = {<<prop_name_id(x_layout.prop_names, "DEVICE_CLASS"),
              netlist.device_classes[netlist.device_models[i].device_class].name>>}

\* extract () has returned; a device cell holds shapes of two terminals, and
\* the second device of a circuit has its instance, tagged with the id 2
C11_TwoTerminalsSecondDevice ==
  /\ x_at.at = "idle" /\ x_at.n = 1 /\ ~x_at.raised
  /\ \E c \in ModelCells :
       \E i, j \in DOMAIN x_layout.cells[c].shapes :
         /\ x_layout.cells[c].shapes[i].props = {<<0, 0>>}
         /\ x_layout.cells[c].shapes[j].props = {<<0, 1>>}
  /\ \E c \in DOMAIN x_layout.cells :
       \E i \in DOMAIN x_layout.cells[c].insts :
         /\ x_layout.cells[c].insts[i].cell \in ModelCells
         /\ x_layout.cells[c].insts[i].props = {<<1, 2>>}

-----------------------------------------------------------------------------
(* Devices and their device cells when extract () has returned *)

\* extract () has returned and was not ended by an exception
ExtractReturned == x_at.at = "idle" /\ x_at.n > 0 /\ ~x_at.raised

\* the device has a device cell attached: its device model is set and one
\* instance of the model's cell, tagged with the device's id, is in the cell
\* of the device's circuit
Attached(d) ==
  /\ Folded(d)
  /\ Cardinality(InstancesOf(d)) = 1
  /\ InstanceCell(d) = netlist.device_models[DeviceAt(d).device_model].cell_index

\* C12: when extract () has returned, every device create_device added has a
\* device cell attached, however many define_terminal calls were made for it.
C12_EveryDeviceAttached == ExtractReturned => \A d \in Devices : Attached(d)

-----------------------------------------------------------------------------
(* extract () called again on the same input *)

\* the second extract () has ended as the first did, the subclass having made
\* the same calls
ExtractedAgain == x_at.at = "idle" /\ x_at.n = 2 /\ x_at.script = <<>>

\* C13: the second of two extract () calls on the same input creates no device
\* cell, adds no error and leaves the netlist as it was after the first call.
C13_SecondExtractChangesNothing ==
  ExtractedAgain =>
    /\ DOMAIN x_layout.cells = DOMAIN x_at.before.layout.cells
    /\ m_errors = x_at.before.errors
    /\ netlist = x_at.before.netlist

\* C14: over the lifetime of the extractor, any number of extract () calls,
\* one device class is registered: the netlist, which starts without device
\* classes and gets them from register_device_class only, never holds two.
C14_OneDeviceClassPerExtractor == Len(netlist.device_classes) <= 1

-----------------------------------------------------------------------------
(* Device cells of an earlier extraction *)

\* the cell carries the DEVICE_CLASS property
CarriesDeviceClass(c) == Entries(x_layout.cells[c].props, "DEVICE_CLASS") # {}

\* the cells reachable from the top cell
ReachableCells == called_cells(x_layout.cells, {0})

\* the root clusters of the reachable cells without DEVICE_CLASS
RootClusters ==
  UNION { { <<c, j>> : j \in {j \in DOMAIN device_clusters(c) : device_clusters(c)[j]} } :
          c \in {c \in ReachableCells : ~CarriesDeviceClass(c)} }

\* the number of times extract_devices returned in the first extract ()
ExtractDevicesCalls ==
  Cardinality({i \in DOMAIN x_at.log : x_at.log[i][1] = "return"}) - 1

\* C15: a cell carrying DEVICE_CLASS is skipped: no circuit is made for it (so
\* no device in it), extract_devices does not run for it, and no instance is
\* inserted into it.  A reachable cell without DEVICE_CLASS is not skipped:
\* when extract () has returned it has its circuit, and extract_devices was
\* called once per root cluster of these cells, in the second extract () as
\* in the first.
C15_DeviceCellsSkipped ==
  /\ \A i \in DOMAIN netlist.circuits : ~CarriesDeviceClass(netlist.circuits[i].cell_index)
  /\ \A c \in DOMAIN x_layout.cells : CarriesDeviceClass(c) => x_layout.cells[c].insts = <<>>
  /\ x_at.at = "extract_devices" =>
       /\ ~CarriesDeviceClass(m_cell_index)
       /\ netlist.circuits[mp_circuit].cell_index = m_cell_index
  /\ ExtractReturned =>
       /\ \A c \in ReachableCells :
            ~CarriesDeviceClass(c) =>
              \E i \in DOMAIN netlist.circuits : netlist.circuits[i].cell_index = c
       /\ x_at.script = <<>>
       /\ ExtractDevicesCalls = Cardinality(RootClusters)

\* the second extract () has returned; a device cell of the first is reachable
\* from the top cell and has no circuit, and cell A, with a property set
\* without DEVICE_CLASS, has its circuit with a device of each extraction
C15_SecondExtractSkippedDeviceCell ==
  /\ ExtractReturned /\ x_at.n = 2
  /\ \E c \in ReachableCells :
       /\ CarriesDeviceClass(c)
       /\ c \in ModelCells
       /\ \A i \in DOMAIN netlist.circuits : netlist.circuits[i].cell_index # c
  /\ x_layout.cells[1].props # {} /\ ~CarriesDeviceClass(1)
  /\ \E i \in DOMAIN netlist.circuits :
       /\ netlist.circuits[i].cell_index = 1
       /\ Len(netlist.circuits[i].devices) = 2

-----------------------------------------------------------------------------
(* The error list *)

ErrorOverloads ==
  {"error", "error with geometry", "error with category", "error with category and geometry"}

\* the step is a call of the subclass, logged or taken from the script
CallMade ==
  \/ Replaying /\ x_at.script # <<>> /\ x_at'.script = Tail(x_at.script)
  \/ Logging /\ Len(x_at'.log) = Len(x_at.log) + 1

\* the call the step is
TheCall == IF Replaying THEN Head(x_at.script) ELSE x_at'.log[Len(x_at'.log)]

\* the entry an error call is to leave in the list: the name of the cell the
\* loop of extract () is at, the message, and category and geometry if the
\* overload takes them
ReportedAs(call) ==
  [cell_name |-> x_layout.cells[Head(x_at.todo)].name,
   message |-> call[2].msg,
   category_name |->
     IF call[1] \in {"error with category", "error with category and geometry"}
       THEN call[2].category_name ELSE "",
   category_description |->
     IF call[1] \in {"error with category", "error with category and geometry"}
       THEN call[2].category_description ELSE "",
   geometry |->
     IF call[1] \in {"error with geometry", "error with category and geometry"}
       THEN call[2].poly ELSE EmptyBox]

\* C16: every error () call appends exactly one entry to the end of the error
\* list, with the name of the cell being extracted, the message and the
\* category and geometry given, leaves the earlier entries as they are and
\* does not abort: extract_devices goes on for the same cluster, nothing else
\* changes.  The list changes by error () calls only, so it holds the errors
\* in the order they were reported.
C16_ErrorAppendsOneEntry ==
  [][ /\ (CallMade /\ TheCall[1] \in ErrorOverloads) =>
           /\ m_errors' = Append(m_errors, ReportedAs(TheCall))
           /\ x_at'.at = "extract_devices" /\ ~x_at'.raised
           /\ x_at'.todo = x_at.todo /\ x_at'.k = x_at.k
           /\ UNCHANGED <<netlist, x_layout, x_clusters, m_new_devices, m_device_cells>>
      /\ m_errors' # m_errors => CallMade /\ TheCall[1] \in ErrorOverloads ]_vars

\* extract () has returned after two errors: the first from TOP with a
\* geometry, the second from A with a category
C16_TwoErrorsInOrder ==
  /\ ExtractReturned /\ x_at.n = 1
  /\ Len(m_errors) = 2
  /\ m_errors[1].cell_name.base = <<"", "TOP">> /\ m_errors[1].geometry = Bx(0, 0, 2, 2)
  /\ m_errors[1].category_name = ""
  /\ m_errors[2].cell_name.base = <<"", "A">> /\ m_errors[2].geometry = EmptyBox
  /\ m_errors[2].category_name = "warn"

\* the number of error () calls the subclass makes in one extract ()
ErrorCalls == Cardinality({i \in DOMAIN x_at.log : x_at.log[i][1] \in ErrorOverloads})

\* C17: each extract () starts with an empty error list, and after it the
\* list holds the errors reported during that extract () only.
C17_ErrorsOfThisExtractOnly ==
  /\ x_at.at = "setup" => m_errors = <<>>
  /\ (x_at.at = "idle" /\ x_at.n > 0) => Len(m_errors) = ErrorCalls

-----------------------------------------------------------------------------
(* Deep mode *)

\* a layer the subclass declared has no region in the layer map, a region
\* that is not a deep region, or one that is not from the layout and initial
\* cell of the deep store
BadLayerMap ==
  \E i \in DOMAIN m_layer_definitions :
    LET name == m_layer_definitions[i].name IN
    \/ name \notin DOMAIN x_at.layer_map
    \/ /\ ~x_at.layer_map[name].null
       /\ \/ ~x_at.layer_map[name].deep
          \/ x_at.layer_map[name].layout # x_at.dss.layout
          \/ x_at.layer_map[name].initial_cell # x_at.dss.initial_cell

\* C19: in deep mode extract () ends by an exception when a declared layer
\* is missing from the layer map, not a deep region or not from the deep
\* store's layout and initial cell, and it does so before it gets to any
\* cell: extract_devices is not called, and layout, circuits, devices and
\* device models stay as they were before the call.
C19_DeepModeFailsEarly ==
  (x_at.deep /\ BadLayerMap) =>
    /\ x_at.at \in {"setup", "idle"}
    /\ x_at.at = "idle" => x_at.raised
    /\ x_layout = x_at.before.layout
    /\ netlist.circuits = x_at.before.netlist.circuits
    /\ netlist.device_models = x_at.before.netlist.device_models

\* extract () in deep mode ended by an exception for a region of another
\* layout, after an extract () that made a device with its device cell; setup
\* had run and registered the device class again
C19_RaisedForForeignRegion ==
  /\ x_at.deep /\ x_at.at = "idle" /\ x_at.raised
  /\ \E name \in DOMAIN x_at.layer_map :
       x_at.layer_map[name].deep /\ x_at.layer_map[name].layout # x_at.dss.layout
  /\ Len(netlist.device_classes) = 2
  /\ \E d \in Devices : Folded(d)
  /\ ModelCells # {}

-----------------------------------------------------------------------------
(* The builder after reset () *)

\* the step is a begin () on a builder that was reset (or is new)
BeginAfterReset ==
  drv.phase = "idle" /\ n_pass' = n_pass + 1 /\ m_initial_pass /\ m_cell_map = <<>>

\* the step is new_inst (inst, all = true) on the first traversal
NewInstAllOnFirstPass ==
  /\ drv.phase = "run" /\ m_initial_pass
  /\ ShapeAt(Cur) = 0 /\ Cur.mode = "none" /\ InstAt(Cur) # 0
  /\ AllOfInstance(Cur, SrcInsts(Cur.cell)[InstAt(Cur)])

\* C18: reset () empties cell map, seen set and stack and sets the initial
\* pass flag.  The begin () after it raises for no iterator, records the
\* iterator as the reference and makes a new target cell the top cell, on top
\* of the stack; in the traversal that follows new_inst (all = true) makes a
\* target cell for a key not mapped yet and inserts the instance.
C18_ResetStartsOver ==
  [][ /\ ResetStep =>
           /\ m_cell_map' = <<>> /\ m_cells_seen' = {} /\ m_cell_stack' = <<>>
           /\ m_initial_pass'
      /\ BeginAfterReset =>
           /\ ~hb_raised' /\ drv'.phase = "run"
           /\ m_ref_iter' = drv'.iter
           /\ Len(tgt_names') = Len(tgt_names) + 1
           /\ DOMAIN m_cell_map' = {Key(drv'.iter.top, {})}
           /\ m_cell_map'[Key(drv'.iter.top, {})] = Len(tgt_names) + 1
           /\ m_cell_stack' = <<Len(tgt_names) + 1>>
           /\ m_initial_pass'
      /\ NewInstAllOnFirstPass =>
           LET inst == SrcInsts(Cur.cell)[InstAt(Cur)]
               key == Key(inst.cell, {})
               parent == Back(m_cell_stack)
           IN  /\ key \in DOMAIN m_cell_map'
               /\ key \notin DOMAIN m_cell_map =>
                    /\ m_cell_map'[key] = Len(tgt_names) + 1
                    /\ Len(tgt_names') = Len(tgt_names) + 1
               /\ tgt_insts'[parent] =
                    BagAdd(tgt_insts[parent],
                           [cell |-> m_cell_map'[key],
                            array |-> [trans |-> inst.trans, na |-> inst.na,
                                       step |-> inst.step]]) ]_vars

\* after a traversal and a reset, a traversal over the whole layout runs as a
\* first one: its top cell and a child cell are new cells, next to three
\* cells or more from before the reset, and the top cell holds an instance
C18_SecondFirstPass ==
  /\ n_pass = 2 /\ m_initial_pass /\ drv.phase = "run"
  /\ hist.ends = 0
  /\ m_ref_iter.region = World
  /\ Cardinality(DOMAIN m_cell_map) >= 2
  /\ Len(tgt_names) >= Cardinality(DOMAIN m_cell_map) + 3
  /\ \A k \in DOMAIN m_cell_map : m_cell_map[k] > 3
  /\ tgt_insts[m_cell_map[Key(0, {})]] # EmptyBag

-----------------------------------------------------------------------------
(* Cells entered in one traversal *)

\* the step is new_inst for the next instance array of the current cell
NewInstStep ==
  /\ drv.phase = "run"
  /\ ShapeAt(Cur) = 0 /\ Cur.mode = "none" /\ InstAt(Cur) # 0
  /\ hb_ret' \in {"NI_all", "NI_single", "NI_skip"}

\* the step is new_inst_member for the next member of the instance array
NewInstMemberStep ==
  /\ drv.phase = "run"
  /\ MemberAt(Cur) # 0
  /\ hb_ret' \in {"true", "false"}

\* the instance was inserted into the cell on top of the stack
Inserted(key, array) ==
  /\ key \in DOMAIN m_cell_map'
  /\ tgt_insts'[Back(m_cell_stack)] =
       BagAdd(tgt_insts[Back(m_cell_stack)], [cell |-> m_cell_map'[key], array |-> array])

\* C20: within a traversal the seen set is the top key and the keys entered:
\* begin () makes it the top key, enter_cell adds the key entered, which was
\* not in it, and no other callback of the traversal changes it; the iterator
\* enters a cell only after new_inst_member returned true.  For a key in the
\* seen set new_inst (all = true) returns NI_skip and new_inst_member
\* (all = false) returns false, the instance being inserted all the same on
\* the first traversal.  new_inst (all = false) returns NI_all and changes
\* nothing.
C20_EnteredOncePerKey ==
  [][ /\ (drv.phase = "idle" /\ drv'.phase = "run") =>
           m_cells_seen' = {Key(drv'.iter.top, {})}
      /\ (drv.phase = "enter" /\ ~hb_raised') =>
           /\ m_cm_entry.key \notin m_cells_seen
           /\ m_cells_seen' = m_cells_seen \cup {m_cm_entry.key}
      /\ (drv.phase = "run" /\ drv'.phase # "idle") => m_cells_seen' = m_cells_seen
      /\ drv'.phase = "enter" => NewInstMemberStep /\ hb_ret' = "true"
      /\ NewInstStep =>
           LET inst == SrcInsts(Cur.cell)[InstAt(Cur)]
               key == Key(inst.cell, {})
           IN  IF AllOfInstance(Cur, inst)
                 THEN /\ hb_ret' = IF key \in m_cells_seen THEN "NI_skip" ELSE "NI_single"
                      /\ m_initial_pass =>
                           Inserted(key, [trans |-> inst.trans, na |-> inst.na,
                                          step |-> inst.step])
                 ELSE /\ hb_ret' = "NI_all"
                      /\ UNCHANGED <<builderVars, targetVars>>
      /\ (NewInstMemberStep /\ ~Cur.all) =>
           LET inst == SrcInsts(Cur.cell)[Cur.ii]
               trans == MemberTrans(inst, MemberAt(Cur))
               variant == compute_clip_variant(SrcBBox(inst.cell), trans, Cur.region,
                                               drv.iter.has_complex, Cur.complex)
               key == Key(inst.cell, variant[2])
           IN  (variant[1] /\ key \in m_cells_seen) =>
                 /\ hb_ret' = "false"
                 /\ m_initial_pass =>
                      Inserted(key, [trans |-> trans, na |-> 1, step |-> <<0, 0>>]) ]_vars

\* on the first traversal new_inst returned NI_skip for a cell entered before,
\* and the top cell holds both instances of it
C20_SkippedSeenCell ==
  /\ m_initial_pass /\ drv.phase = "run"
  /\ hb_ret = "NI_skip"
  /\ Len(m_cell_stack) = 1
  /\ Key(1, {}) \in m_cells_seen
  /\ BagCardinality(tgt_insts[m_cell_stack[1]]) = 2
  /\ \A e \in BagToSet(tgt_insts[m_cell_stack[1]]) : e.cell = m_cell_map[Key(1, {})]

-----------------------------------------------------------------------------
(* Specification SpecVariant: compute_clip_variant called on its own with a *)
(* cell bounding box, a displacement, a region and a complex region        *)

\* the cell bounding boxes
CvBoxes == { Bx(0, 0, 2, 2), Bx(0, 0, 1, 1) }

\* the displacements of the instance
CvTrans == { <<0, 0>>, <<1, 0>>, <<2, 0>>, <<3, 1>> }

\* the regions of the iterator
CvRegions == { World, HBRegion, Bx(0, 0, 2, 2) }

\* the complex regions: none, an empty one, and some of one or two rectangles
CvComplex ==
  { [has |-> FALSE, boxes |-> <<>>],
    [has |-> TRUE, boxes |-> <<>>],
    [has |-> TRUE, boxes |-> HBComplex],
    [has |-> TRUE, boxes |-> <<Bx(0, 0, 1, 1)>>],
    [has |-> TRUE, boxes |-> <<HBRegion>>] }

InitVariant ==
  /\ cv_call \in [cell_bbox : CvBoxes, trans : CvTrans, region : CvRegions,
                  complex : CvComplex, called : {FALSE}, result : {<<FALSE, {}>>}]
  /\ CmpIdle
  /\ HBIdle
  /\ ClipIdle
  /\ RedIdle
  /\ DxIdle

\* compute_clip_variant called with the arguments
ComputeClipVariant ==
  /\ ~cv_call.called
  /\ cv_call' = [cv_call EXCEPT
                   !.called = TRUE,
                   !.result = compute_clip_variant(cv_call.cell_bbox, cv_call.trans, cv_call.region,
                                                   cv_call.complex.has, cv_call.complex.boxes)]
  /\ UNCHANGED <<cmpVars, hbVars, drvVars, clipVars, redVars, dxVars>>

NextVariant == ComputeClipVariant

SpecVariant == InitVariant /\ [][NextVariant]_vars

\* B intersected with T^-1(R)
VariantRect(B, T, R) == BoxAnd(B, BoxMoved(R, TransInv(T)))

\* the boxes rect intersected with T^-1(c), for the rectangles c of C that
\* overlap R and whose T^-1(c) overlaps rect
VariantIntersections(B, T, R, C) ==
  { BoxAnd(VariantRect(B, T, R), BoxMoved(C[i], TransInv(T))) :
      i \in { j \in 1..Len(C) : /\ BoxOverlaps(C[j], R)
                                /\ BoxOverlaps(BoxMoved(C[j], TransInv(T)), VariantRect(B, T, R)) } }

\* the result as a pair: the empty variant for the world region, invalid
\* without overlap, the one box without a complex region, else the
\* intersections, invalid if there are none
VariantExpected(B, T, R, has, C) ==
  IF R = World THEN <<TRUE, {}>>
  ELSE IF ~BoxOverlaps(B, BoxMoved(R, TransInv(T))) THEN <<FALSE, {}>>
  ELSE IF ~has THEN <<TRUE, {VariantRect(B, T, R)}>>
  ELSE IF VariantIntersections(B, T, R, C) = {} THEN <<FALSE, {}>>
  ELSE <<TRUE, VariantIntersections(B, T, R, C)>>

\* C21: compute_clip_variant (B, T, R, C) returns the valid empty variant for
\* the world region, invalid if B does not overlap T^-1(R), the variant
\* {B & T^-1(R)} without a complex region, and with one the set of the boxes
\* rect & T^-1(c) of the rectangles c overlapping R whose T^-1(c) overlaps
\* rect = B & T^-1(R) (invalid if there are none); every box of a valid
\* variant lies inside B & T^-1(R).
C21_VariantAsSpecified ==
  cv_call.called =>
    /\ cv_call.result = VariantExpected(cv_call.cell_bbox, cv_call.trans, cv_call.region,
                                        cv_call.complex.has, cv_call.complex.boxes)
    /\ \A b \in cv_call.result[2] :
         BoxInside(b, VariantRect(cv_call.cell_bbox, cv_call.trans, cv_call.region))

-----------------------------------------------------------------------------
(* Members without a valid clip variant                                     *)

\* member k of the instance array the frame is at has no valid clip variant:
\* its bounding box does not overlap the frame's region, or no rectangle of
\* the complex region overlaps it
InvalidMember(f, k) ==
  LET inst == SrcInsts(f.cell)[f.ii]
  IN  ~VariantExpected(SrcBBox(inst.cell), MemberTrans(inst, k), f.region,
                       drv.iter.has_complex, f.complex)[1]

\* C22: new_inst_member with all = false for a member whose clip variant is
\* invalid returns false and changes nothing else: no target cell, no
\* cell-map entry, no instance, no failed assertion, on every pass.
C22_InvalidMemberNoEffect ==
  [][ (NewInstMemberStep /\ ~Cur.all /\ InvalidMember(Cur, MemberAt(Cur)))
        => /\ hb_ret' = "false"
           /\ hb_raised' = FALSE
           /\ UNCHANGED <<builderVars, targetVars>> ]_vars

\* new_inst_member has returned false for the member before the one the
\* iterator is at, which has no valid clip variant
InvalidMemberRejected ==
  /\ drv.phase = "run"
  /\ drv.frames # <<>>
  /\ hb_ret = "false" /\ ~hb_raised
  /\ LET f == Back(drv.frames)
     IN  /\ f.mode = "NI_all" /\ ~f.all /\ f.mi > 1
         /\ MemberAt([f EXCEPT !.mi = f.mi - 1]) = f.mi - 1
         /\ InvalidMember(f, f.mi - 1)

\* ... on a pass after the first
C22_InvalidMemberOnLaterPass == InvalidMemberRejected /\ ~m_initial_pass

\* ... on the first pass
C22_InvalidMemberOnFirstPass == InvalidMemberRejected /\ m_initial_pass

-----------------------------------------------------------------------------
(* The cell stack during a traversal                                        *)

\* the key of the cell entered i - 1 levels below the top cell: the top
\* cell's key for i = 1, else the key new_inst (all members) or
\* new_inst_member (one member) looked up before enter_cell
EnteredKey(i) ==
  IF i = 1 THEN Key(drv.iter.top, {})
  ELSE LET f    == drv.frames[i - 1]
           inst == SrcInsts(f.cell)[f.ii]
       IN  Key(inst.cell,
               IF f.all THEN {}
               ELSE compute_clip_variant(SrcBBox(inst.cell), MemberTrans(inst, f.mi - 1),
                                         f.region, drv.iter.has_complex, f.complex)[2])

\* one stack element per open enter_cell and one for the top cell, each the
\* target cell of the entered key
StackFollowsTraversal ==
  drv.phase \in {"run", "enter"} =>
    /\ Len(m_cell_stack) = Len(drv.frames)
    /\ \A i \in 1..Len(drv.frames) :
         /\ EnteredKey(i) \in DOMAIN m_cell_map
         /\ m_cell_stack[i] = m_cell_map[EnteredKey(i)]

\* the step is a shape callback
ShapeStep == drv.phase = "run" /\ ShapeAt(Cur) # 0

\* the step is the end () of a traversal
EndStep == drv.phase = "run" /\ drv'.phase = "idle"

\* C23: during a traversal the cell stack has one element more than there
\* are open enter_cell calls and its top is the target cell of the innermost
\* entered key; a shape callback writes into that cell's shapes only and
\* leaves cell map, seen set and stack alone; at end () the stack has size 1,
\* the assertion holds and initial_cell () is the target cell of the key
\* (top cell, empty variant).
C23_StackTracksEnteredCells ==
  [][ /\ StackFollowsTraversal
      /\ ShapeStep =>
           /\ UNCHANGED <<m_cell_map, m_cells_seen, m_cell_stack, tgt_names, tgt_insts>>
           /\ tgt_shapes'[Back(m_cell_stack)] # tgt_shapes[Back(m_cell_stack)]
           /\ \A c \in DOMAIN tgt_shapes :
                c # m_cell_map[EnteredKey(Len(drv.frames))] => tgt_shapes'[c] = tgt_shapes[c]
      /\ EndStep =>
           /\ Len(m_cell_stack) = 1
           /\ hb_raised' = FALSE
           /\ mp_initial_cell' = m_cell_map[Key(drv.iter.top, {})] ]_vars

\* a shape has been written into a clip variant's cell two levels below the
\* top cell
C23_ShapeWrittenTwoLevelsDown ==
  /\ drv.phase = "run"
  /\ Len(m_cell_stack) = 3
  /\ EnteredKey(3).cv # {}
  /\ Back(drv.frames).si > 1
  /\ tgt_shapes[Back(m_cell_stack)] # EmptyBag

\* a traversal has ended and initial_cell () is set
C23_Ended == drv.phase = "idle" /\ hist.ends > 0 /\ mp_initial_cell # 0

-----------------------------------------------------------------------------
(* The comparator as a three-way ordering                                   *)

\* C24: compare_iterators_with_respect_to_target_hierarchy returns -1, 0 or 1
\* and compare (a, b) = -compare (b, a) for all iterators a and b, so
\* compare (a, b) = 0 exactly when compare (b, a) = 0, also for iterators
\* that differ only in the layer or the layer list.
C24_ComparatorAntisymmetric ==
  cmp_called =>
    /\ cmp_result \in {-1, 0, 1}
    /\ cmp_result = 0 - cmp_swapped
    /\ (cmp_result = 0) <=> (cmp_swapped = 0)

-----------------------------------------------------------------------------
(* extract_devices and the root clusters                                    *)

\* the cluster extract_devices runs for
ClusterAt == <<m_cell_index, x_at.k>>

\* the root clusters after cluster p in the order of the loops: cells by
\* index, the clusters of a cell in the order of the iteration
RootClustersAfter(p) ==
  {q \in RootClusters : q[1] > p[1] \/ (q[1] = p[1] /\ q[2] > p[2])}

FirstCluster(S) == CHOOSE p \in S : \A q \in S : p[1] < q[1] \/ (p[1] = q[1] /\ p[2] <= q[2])

\* the loops have gone on from cluster p to the next invocation of
\* extract_devices, or to the end of extract ()
GoneOnFrom(p) ==
  IF RootClustersAfter(p) = {}
    THEN x_at'.at = "idle" /\ ~x_at'.raised
    ELSE /\ x_at'.at = "extract_devices"
         /\ <<m_cell_index', x_at'.k>> = FirstCluster(RootClustersAfter(p))
         /\ x_at'.device = 0

\* the step is the return of setup () into extract_without_initialize
SetupReturnStep == x_at.at = "setup" /\ x_at'.at # "setup" /\ ~x_at'.raised

\* the step is the return of extract_devices
ExtractDevicesReturnStep ==
  /\ x_at.at = "extract_devices"
  /\ x_at' # x_at
  /\ x_at'.calls = x_at.calls /\ ~x_at'.raised

\* C25: extract_devices is invoked once for every root cluster of every
\* reachable non-device cell, in the order of the iteration, and for no
\* other cluster; when it returns the devices and terminal geometry it
\* accumulated are folded into device cells of the cell it ran for and the
\* accumulator is emptied before the next cluster, so nothing is carried over
\* into another cluster or cell and a device belongs to the one root cluster
\* extract_devices created it for.
C25_OncePerRootCluster ==
  [][ /\ x_at.at # "extract_devices" => m_new_devices = EmptyMap
      /\ x_at.at = "extract_devices" =>
           /\ ClusterAt \in RootClusters
           /\ netlist.circuits[mp_circuit].cell_index = m_cell_index
           /\ \A d \in DOMAIN m_new_devices :
                \E i \in DOMAIN netlist.circuits[mp_circuit].devices :
                  /\ netlist.circuits[mp_circuit].devices[i].id = d
                  /\ netlist.circuits[mp_circuit].devices[i].device_model = 0
           /\ ~ExtractDevicesReturnStep /\ x_at'.at = "extract_devices" =>
                /\ <<m_cell_index', x_at'.k>> = ClusterAt
                /\ \A c \in DOMAIN netlist.circuits :
                     c # mp_circuit => netlist'.circuits[c] = netlist.circuits[c]
      /\ SetupReturnStep => GoneOnFrom(<<-1, 0>>) /\ m_new_devices' = EmptyMap
      /\ ExtractDevicesReturnStep =>
           /\ GoneOnFrom(ClusterAt)
           /\ m_new_devices' = EmptyMap
           /\ \A d \in DOMAIN m_new_devices :
                \E i \in DOMAIN netlist.circuits[mp_circuit].devices :
                  /\ netlist'.circuits[mp_circuit].devices[i].id = d
                  /\ netlist'.circuits[mp_circuit].devices[i].device_model # 0
           /\ \A c \in DOMAIN netlist.circuits :
                c # mp_circuit => netlist'.circuits[c] = netlist.circuits[c]
           /\ \A c \in DOMAIN x_layout.cells :
                c # m_cell_index => x_layout'.cells[c] = x_layout.cells[c] ]_vars

\* extract () has returned after extract_devices ran for the root cluster of
\* TOP and for the root cluster of A, each with a device that has terminal
\* geometry, and both devices are folded
C25_TwoClustersFolded ==
  /\ ExtractReturned
  /\ m_new_devices = EmptyMap
  /\ \A c \in {0, 1} :
       \E d \in Devices :
         /\ netlist.circuits[d[1]].cell_index = c
         /\ Folded(d)
         /\ \E q \in x_defined : q.circuit = d[1] /\ q.id = DeviceAt(d).id

-----------------------------------------------------------------------------
(* Circuits and cell indexes                                                *)

\* the circuits the netlist has for cell c
CircuitsOf(c) == {i \in DOMAIN netlist.circuits : netlist.circuits[i].cell_index = c}

\* no two circuits for one cell index; when extract () has returned, one
\* circuit for every reachable cell without DEVICE_CLASS
AtMostOneCircuitPerCell ==
  /\ \A c \in DOMAIN x_layout.cells : Cardinality(CircuitsOf(c)) <= 1
  /\ ExtractReturned =>
       \A c \in ReachableCells : ~CarriesDeviceClass(c) => Cardinality(CircuitsOf(c)) = 1

\* a step keeps the circuits there are, with devices appended at most, and a
\* circuit it adds is an empty one for a reachable cell without DEVICE_CLASS
\* that had none, with the cell's index and name
CircuitsReusedOrCreated ==
  /\ Len(netlist'.circuits) >= Len(netlist.circuits)
  /\ \A i \in DOMAIN netlist.circuits :
       /\ netlist'.circuits[i].cell_index = netlist.circuits[i].cell_index
       /\ netlist'.circuits[i].name = netlist.circuits[i].name
       /\ Len(netlist'.circuits[i].devices) >= Len(netlist.circuits[i].devices)
       /\ \A j \in DOMAIN netlist.circuits[i].devices :
            netlist'.circuits[i].devices[j].id = netlist.circuits[i].devices[j].id
  /\ \A i \in DOMAIN netlist'.circuits \ DOMAIN netlist.circuits :
       LET c == netlist'.circuits[i].cell_index
       IN  /\ CircuitsOf(c) = {}
           /\ c \in ReachableCells /\ ~CarriesDeviceClass(c)
           /\ netlist'.circuits[i].name = x_layout.cells[c].name
           /\ netlist'.circuits[i].devices = <<>>
  /\ x_at'.at = "extract_devices" /\ x_at'.device # x_at.device /\ x_at'.device # 0 =>
       /\ CircuitsOf(m_cell_index) = {mp_circuit}
       /\ Len(netlist'.circuits[mp_circuit].devices) = Len(netlist.circuits[mp_circuit].devices) + 1

\* C26: after any sequence of extract () calls into the netlist there is at
\* most one circuit per cell index: a reachable non-device cell that has a
\* circuit reuses it, devices being appended to it, and one that has none
\* gets exactly one new circuit with its cell index and name.
C26_OneCircuitPerCellIndex == []AtMostOneCircuitPerCell /\ [][CircuitsReusedOrCreated]_vars

\* the second extract () has returned; there are the two circuits of the
\* first, and one of them has a device of each extraction
C26_SecondExtractReusedCircuits ==
  /\ ExtractReturned /\ x_at.n = 2
  /\ Len(netlist.circuits) = 2
  /\ Len(x_at.before.netlist.circuits) = 2
  /\ \E i \in DOMAIN netlist.circuits :
       /\ Len(x_at.before.netlist.circuits[i].devices) = 1
       /\ Len(netlist.circuits[i].devices) = 2

-----------------------------------------------------------------------------
(* Device cell instances and the terminal geometry                          *)

\* the instance of a folded device in the cell of its circuit
InstanceOf(d) ==
  x_layout.cells[netlist.circuits[d[1]].cell_index].insts[CHOOSE i \in InstancesOf(d) : TRUE]

\* the polygons define_terminal was called with for the device, by terminal
\* and layer
DefinedGeometry(d) ==
  { <<q.terminal_id, q.layer, q.polygon>> :
      q \in {q \in x_defined : q.circuit = d[1] /\ q.id = DeviceAt(d).id} }

\* the terminal shapes of cell c moved by trans, by terminal and layer
PlacedShapes(c, trans) ==
  LET shapes == x_layout.cells[c].shapes IN
  UNION { { <<e[2], shapes[i].layer, BoxMoved(shapes[i].poly, trans)>> :
              e \in Entries(shapes[i].props, "TERMINAL_ID") } : i \in DOMAIN shapes }

\* two devices of one circuit that differ by a translation only
TranslatedCopies(d1, d2) ==
  /\ d1[1] = d2[1] /\ d1[2] # d2[2]
  /\ SameKey(d1, d2)
  /\ Disp(DeviceAt(d1).position, x_layout.dbu) # Disp(DeviceAt(d2).position, x_layout.dbu)

-----------------------------------------------------------------------------
(* The local clusters of a device cell                                      *)

\* the local clusters seeded for cell c
ClustersOf(c) == IF c \in DOMAIN x_clusters THEN x_clusters[c] ELSE <<>>

\* the polygons of a cluster, by layer
ClusterPolygons(cluster) ==
  { <<cluster.shapes[i].layer, cluster.shapes[i].poly>> : i \in DOMAIN cluster.shapes }

\* the polygons written into cell c for terminal t, by layer
TerminalPolygons(c, t) ==
  LET shapes == x_layout.cells[c].shapes IN
  { <<shapes[i].layer, shapes[i].poly>> :
      i \in {i \in DOMAIN shapes : <<t>> \in {<<e[2]>> : e \in Entries(shapes[i].props, "TERMINAL_ID")}} }

\* one cluster per terminal of the device model, mapped from the terminal id
\* and carrying the terminal's TERMINAL_ID property set
ClusterPerTerminal(m) ==
  LET cc == ClustersOf(m.cell_index) IN
  /\ Len(cc) = Cardinality(DOMAIN m.terminal_clusters)
  /\ \A t \in DOMAIN m.terminal_clusters :
       /\ m.terminal_clusters[t] \in DOMAIN cc
       /\ cc[m.terminal_clusters[t]].id = m.terminal_clusters[t]
       /\ cc[m.terminal_clusters[t]].attrs =
            {PropSet(prop_name_id(x_layout.prop_names, "TERMINAL_ID"), t)}
  /\ \A t1, t2 \in DOMAIN m.terminal_clusters :
       t1 # t2 => m.terminal_clusters[t1] # m.terminal_clusters[t2]

\* C28: a new device cell has exactly one local cluster per terminal, the
\* device model maps the terminal id to the cluster's id, the cluster carries
\* the terminal's TERMINAL_ID property set and holds, per layer, the polygons
\* written into the device cell for the terminal, in the cell's frame with
\* the device position at the origin; no cell has clusters but the device
\* cells, so a registry hit adds none.
C28_ClustersMatchDeviceCell ==
  /\ \A c \in DOMAIN x_clusters : x_clusters[c] # <<>> => c \in ModelCells
  /\ \A i \in DOMAIN netlist.device_models :
       LET m == netlist.device_models[i] IN
       /\ ClusterPerTerminal(m)
       /\ \A t \in DOMAIN m.terminal_clusters :
            ClusterPolygons(ClustersOf(m.cell_index)[m.terminal_clusters[t]])
              = TerminalPolygons(m.cell_index, t)

\* what holds of the clusters apart from the frame of their polygons
ClustersSeededOncePerTerminal ==
  /\ \A c \in DOMAIN x_clusters : x_clusters[c] # <<>> => c \in ModelCells
  /\ \A i \in DOMAIN netlist.device_models : ClusterPerTerminal(netlist.device_models[i])

====
